---- MODULE Spec2Model ----
(***************************************************************************)
(* Task Dashboard (src/app.py): the TaskParser / Stats pipeline.           *)
(*                                                                         *)
(* Text is modelled as a sequence of one-character strings, so that the    *)
(* regular expressions, strip(), lower(), split() and int() of the source  *)
(* are computed character by character.  A character outside ASCII is      *)
(* written as its code point ("U+2013" is the en dash).                    *)
(* A calendar date "YYYY-MM-DD" is the triple <<y, m, d>>; comparing two   *)
(* such strings is comparing the triples lexicographically, and strptime   *)
(* is the conversion to a day ordinal.                                     *)
(***************************************************************************)
EXTENDS Integers, Sequences, FiniteSets, TLC

VARIABLES
    pc,            \* position in the request handler api_outlook
    request_exclude, \* exclude_middle_priority of the request, given to TaskParser
    mails,         \* the messages handed to TaskParser.parse so far
    tasks,         \* TaskParser.tasks
    raw_tasks,     \* Stats.raw_tasks
    unique_members,\* Stats.unique_members
    last_mail_date,\* Stats.last_mail_date
    all_tasks,     \* the list returned by the last Stats._process_tasks()
    today,         \* datetime.now() as the last _process_tasks() read it
    contribution,  \* the contribution list of the last summary()
    totals,        \* the counts of the last summary(), and is_overdue of its tasks
    runs,          \* the number of summary() calls on this Stats so far
    hash_order     \* the interpreter's iteration order of a set of strings

vars == <<pc, request_exclude, mails, tasks, raw_tasks, unique_members, last_mail_date,
          all_tasks, contribution, totals, today, runs, hash_order>>

-----------------------------------------------------------------------------
(* Characters *)

EnDash == "U+2013"
EmDash == "U+2014"
IdeoComma == "U+3001"

Digits == <<"0", "1", "2", "3", "4", "5", "6", "7", "8", "9">>
UpperCase == <<"A", "B", "C", "D", "E", "F", "G", "H", "I", "J", "K", "L", "M",
               "N", "O", "P", "Q", "R", "S", "T", "U", "V", "W", "X", "Y", "Z">>
LowerCase == <<"a", "b", "c", "d", "e", "f", "g", "h", "i", "j", "k", "l", "m",
               "n", "o", "p", "q", "r", "s", "t", "u", "v", "w", "x", "y", "z">>
\* the ideographs the inputs use, in code point order (all within U+4E00..U+9FFF)
Ideographs == <<"U+674E", "U+738B">>

Range(s) == {s[i] : i \in 1..Len(s)}

IsWs(c) == c \in {" ", "\t"}
IsDigit(c) == c \in Range(Digits)
IsUpper(c) == c \in Range(UpperCase)
IsLower(c) == c \in Range(LowerCase)
IsAlpha(c) == IsUpper(c) \/ IsLower(c)
IsCJK(c) == c \in Range(Ideographs)
IsDash(c) == c \in {"-", EnDash, EmDash}

PosIn(s, c) == CHOOSE i \in 1..Len(s) : s[i] = c

DigitVal(c) == PosIn(Digits, c) - 1

\* str.lower() on one character
LowerChar(c) == IF IsUpper(c) THEN LowerCase[PosIn(UpperCase, c)] ELSE c

\* the code point order of the characters that owner names are made of
CodeOrder == Digits \o UpperCase \o <<"_">> \o LowerCase \o Ideographs
Ord(c) == PosIn(CodeOrder, c)

-----------------------------------------------------------------------------
(* Strings *)

Take(s, n) == SubSeq(s, 1, n)
Drop(s, n) == SubSeq(s, n + 1, Len(s))

Lower(s) == [i \in 1..Len(s) |-> LowerChar(s[i])]

RECURSIVE LStrip(_)
LStrip(s) == IF s # <<>> /\ IsWs(s[1]) THEN LStrip(Tail(s)) ELSE s

RECURSIVE RStrip(_)
RStrip(s) == IF s # <<>> /\ IsWs(s[Len(s)]) THEN RStrip(Take(s, Len(s) - 1)) ELSE s

Strip(s) == RStrip(LStrip(s))

\* does the literal pat (lower case) stand at position i of s, ignoring case
MatchAtCI(s, i, pat) ==
    /\ i >= 1
    /\ i + Len(pat) - 1 <= Len(s)
    /\ \A k \in 1..Len(pat) : LowerChar(s[i + k - 1]) = pat[k]

\* index of the first character at or after position from that is in set, 0 if none
FirstIn(s, from, set) ==
    IF \E i \in from..Len(s) : s[i] \in set
    THEN CHOOSE i \in from..Len(s) :
            s[i] \in set /\ \A j \in from..(i - 1) : s[j] \notin set
    ELSE 0

\* index of the first character at or after position from that is not in set,
\* Len(s) + 1 if none
FirstNotIn(s, from, set) ==
    IF \E i \in from..Len(s) : s[i] \notin set
    THEN CHOOSE i \in from..Len(s) :
            s[i] \notin set /\ \A j \in from..(i - 1) : s[j] \in set
    ELSE Len(s) + 1

WsChars == {" ", "\t"}

\* 'sub in s'
Contains(s, sub) ==
    \E i \in 1..(Len(s) - Len(sub) + 1) : SubSeq(s, i, i + Len(sub) - 1) = sub

\* re.sub(r'\s+', ' ', s)
RECURSIVE CollapseWs(_)
CollapseWs(s) ==
    IF s = <<>> THEN <<>>
    ELSE IF IsWs(s[1])
         THEN <<" ">> \o CollapseWs(Drop(s, FirstNotIn(s, 1, WsChars) - 1))
         ELSE <<s[1]>> \o CollapseWs(Tail(s))

\* re.sub(r'\[.*?\]', '', s): every '[' that has a ']' after it is removed with
\* the shortest text up to that ']'
RECURSIVE RemoveBrackets(_)
RemoveBrackets(s) ==
    IF s = <<>> THEN <<>>
    ELSE IF s[1] = "[" /\ FirstIn(s, 2, {"]"}) # 0
         THEN RemoveBrackets(Drop(s, FirstIn(s, 2, {"]"})))
         ELSE <<s[1]>> \o RemoveBrackets(Tail(s))

\* s.split(sep) for a one-character separator
RECURSIVE Split(_, _)
Split(s, sep) ==
    IF FirstIn(s, 1, {sep}) = 0 THEN <<s>>
    ELSE <<Take(s, FirstIn(s, 1, {sep}) - 1)>> \o Split(Drop(s, FirstIn(s, 1, {sep})), sep)

\* re.split(r'[/,<U+3001>]', s)
RECURSIVE SplitAny(_, _)
SplitAny(s, seps) ==
    IF FirstIn(s, 1, seps) = 0 THEN <<s>>
    ELSE <<Take(s, FirstIn(s, 1, seps) - 1)>> \o SplitAny(Drop(s, FirstIn(s, 1, seps)), seps)

\* s.replace(a, b) for one-character a and b
Replace(s, a, b) == [i \in 1..Len(s) |-> IF s[i] = a THEN b ELSE s[i]]

\* comparison of two strings by code point, as sorted() does for owner names
RECURSIVE StrLess(_, _)
StrLess(a, b) ==
    IF b = <<>> THEN FALSE
    ELSE IF a = <<>> THEN TRUE
    ELSE IF a[1] = b[1] THEN StrLess(Tail(a), Tail(b))
    ELSE Ord(a[1]) < Ord(b[1])

\* sorted(list of strings)
RECURSIVE InsertSorted(_, _)
InsertSorted(sorted, x) ==
    IF sorted = <<>> THEN <<x>>
    ELSE IF StrLess(x, sorted[1]) THEN <<x>> \o sorted
    ELSE <<sorted[1]>> \o InsertSorted(Tail(sorted), x)

RECURSIVE SortStrings(_)
SortStrings(l) ==
    IF l = <<>> THEN <<>>
    ELSE InsertSorted(SortStrings(Take(l, Len(l) - 1)), l[Len(l)])

\* sep.join(list)
RECURSIVE Join(_, _)
Join(l, sep) ==
    IF l = <<>> THEN <<>>
    ELSE IF Len(l) = 1 THEN l[1]
    ELSE l[1] \o sep \o Join(Tail(l), sep)

-----------------------------------------------------------------------------
(* TaskParser._parse_members and TaskParser._parse_task *)

\* Optional[...]: None is the empty sequence, a value v is <<v>>
None == <<>>
Some(v) == <<v>>

\* re.match(r'^[\u4e00-\u9fff]{1,10}$', p)
IsCJKName(p) == Len(p) \in 1..10 /\ \A i \in 1..Len(p) : IsCJK(p[i])

\* re.match(r'^[A-Za-z][A-Za-z0-9_]{0,19}$', p)
IsAsciiName(p) ==
    /\ Len(p) \in 1..20
    /\ IsAlpha(p[1])
    /\ \A i \in 2..Len(p) : IsAlpha(p[i]) \/ IsDigit(p[i]) \/ p[i] = "_"

\* every non-empty token kept, whatever it is made of
RECURSIVE KeepTokens(_)
KeepTokens(parts) ==
    IF parts = <<>> THEN <<>>
    ELSE (IF Strip(parts[1]) # <<>> THEN <<Strip(parts[1])>> ELSE <<>>)
            \o KeepTokens(Tail(parts))

RECURSIVE KeepMembers(_)
KeepMembers(parts) ==
    IF parts = <<>> THEN <<>>
    ELSE LET p == Strip(parts[1])
         IN  (IF p # <<>> /\ (IsCJKName(p) \/ IsAsciiName(p)) THEN <<p>> ELSE <<>>)
                \o KeepMembers(Tail(parts))

parse_members(text) ==
    IF text = <<>> THEN <<>>
    ELSE KeepMembers(SplitAny(text, {"/", ",", IdeoComma}))

\* re.match(r'^(\*{1,3})\s*(.+)$', content): the number of stars matched (0: no
\* match) and group 2.  The stars are matched greedily and one is given back to
\* (.+) when nothing follows them.
StarMatch(content) ==
    LET n    == IF FirstNotIn(content, 1, {"*"}) - 1 > 3 THEN 3
                ELSE FirstNotIn(content, 1, {"*"}) - 1
        rest == Drop(content, n)
    IN  IF n = 0 THEN [stars |-> 0, rest |-> content]
        ELSE IF rest = <<>>
             THEN IF n >= 2 THEN [stars |-> n - 1, rest |-> <<"*">>]
                  ELSE [stars |-> 0, rest |-> content]
             ELSE [stars |-> n, rest |-> IF LStrip(rest) = <<>>
                                          THEN <<rest[Len(rest)]>>
                                          ELSE LStrip(rest)]

\* {3: "high", 2: "medium", 1: "normal"}.get(stars, "normal")
StarPriority(stars) ==
    IF stars = 3 THEN "high" ELSE IF stars = 2 THEN "medium" ELSE "normal"

\* group 1 of r'\[Due\s*(?:date)?[:\s]*([^\]]+)\]' for the text R that stands
\* between "[Due" and the first "]" (R is not empty): each of \s*, (?:date)? and
\* [:\s]* takes as much as it can, and gives back what the group needs to be
\* non-empty.
DueGroup(R) ==
    LET R1      == LStrip(R)
        hasDate == MatchAtCI(R1, 1, <<"d", "a", "t", "e">>)
        R2      == IF hasDate THEN Drop(R1, 4) ELSE R1
        X       == Drop(R2, FirstNotIn(R2, 1, {":"} \cup WsChars) - 1)
    IN  IF X # <<>> THEN X
        ELSE IF hasDate /\ R2 = <<>> THEN R1
        ELSE <<R[Len(R)]>>

\* can the Due pattern match with its "[" at position i
DueAt(content, i) ==
    /\ i \in 1..Len(content)
    /\ content[i] = "["
    /\ MatchAtCI(content, i + 1, <<"d", "u", "e">>)
    /\ FirstIn(content, i + 4, {"]"}) > i + 4

\* can r'\[(\d{1,2}/\d{1,2})\]' match with its "[" at position i, with m digits
\* before the slash and n after it
BareDueAt(content, i, m, n) ==
    /\ i \in 1..Len(content)
    /\ i + m + n + 2 <= Len(content)
    /\ content[i] = "["
    /\ \A k \in (i + 1)..(i + m) : IsDigit(content[k])
    /\ content[i + m + 1] = "/"
    /\ \A k \in (i + m + 2)..(i + m + n + 1) : IsDigit(content[k])
    /\ content[i + m + n + 2] = "]"

NoMatch == [found |-> FALSE, start |-> 0, end |-> 0, group |-> <<>>]

\* lines 332-335: the span [start, end] of the match and its group 1
DueMatch(content) ==
    IF \E i \in 1..Len(content) : DueAt(content, i)
    THEN LET i == CHOOSE i \in 1..Len(content) :
                    DueAt(content, i) /\ \A j \in 1..(i - 1) : ~DueAt(content, j)
             q == FirstIn(content, i + 4, {"]"})
         IN  [found |-> TRUE, start |-> i, end |-> q,
              group |-> DueGroup(SubSeq(content, i + 4, q - 1))]
    ELSE IF \E i \in 1..Len(content), m, n \in 1..2 : BareDueAt(content, i, m, n)
    THEN LET i == CHOOSE i \in 1..Len(content) :
                    /\ \E m, n \in 1..2 : BareDueAt(content, i, m, n)
                    /\ \A j \in 1..(i - 1) : \A m, n \in 1..2 : ~BareDueAt(content, j, m, n)
             mn == CHOOSE mn \in (1..2) \X (1..2) : BareDueAt(content, i, mn[1], mn[2])
         IN  [found |-> TRUE, start |-> i, end |-> i + mn[1] + mn[2] + 2,
              group |-> SubSeq(content, i + 1, i + mn[1] + mn[2] + 1)]
    ELSE NoMatch

\* line 340: re.sub(r'^(?:date)?[:\s]*', '', due_date, flags=re.IGNORECASE).strip()
CleanDue(d) ==
    LET d1 == IF MatchAtCI(d, 1, <<"d", "a", "t", "e">>) THEN Drop(d, 4) ELSE d
    IN  Strip(Drop(d1, FirstNotIn(d1, 1, {":"} \cup WsChars) - 1))

\* content[:m.start()] + content[m.end():]
CutSpan(content, m) == Take(content, m.start - 1) \o Drop(content, m.end)

StatusWords == {<<"p", "e", "n", "d", "i", "n", "g">>,
                <<"r", "e", "s", "o", "l", "v", "e", "d">>,
                <<"d", "o", "n", "e">>,
                <<"c", "o", "m", "p", "l", "e", "t", "e", "d">>}

\* the index of the "]" that ends a match of
\* r'\[(pending|resolved|done|completed|status[:\s]*[^\]]+)\]' whose "[" is at
\* position i, 0 if there is none
StatusEndAt(content, i) ==
    IF ~(i \in 1..Len(content) /\ content[i] = "[") THEN 0
    ELSE IF \E w \in StatusWords :
                /\ MatchAtCI(content, i + 1, w)
                /\ i + Len(w) + 1 <= Len(content)
                /\ content[i + Len(w) + 1] = "]"
    THEN LET w == CHOOSE w \in StatusWords :
                    /\ MatchAtCI(content, i + 1, w)
                    /\ i + Len(w) + 1 <= Len(content)
                    /\ content[i + Len(w) + 1] = "]"
         IN  i + Len(w) + 1
    ELSE IF /\ MatchAtCI(content, i + 1, <<"s", "t", "a", "t", "u", "s">>)
            /\ FirstIn(content, i + 7, {"]"}) > i + 7
    THEN FirstIn(content, i + 7, {"]"})
    ELSE 0

\* line 344
StatusMatch(content) ==
    IF \E i \in 1..Len(content) : StatusEndAt(content, i) # 0
    THEN LET i == CHOOSE i \in 1..Len(content) :
                    /\ StatusEndAt(content, i) # 0
                    /\ \A j \in 1..(i - 1) : StatusEndAt(content, j) = 0
         IN  [found |-> TRUE, start |-> i, end |-> StatusEndAt(content, i),
              group |-> SubSeq(content, i + 1, StatusEndAt(content, i) - 1)]
    ELSE NoMatch

\* lines 346-348
StatusOf(group) ==
    LET status == Lower(Strip(group))
    IN  IF ":" \in Range(status)
        THEN Strip(Split(status, ":")[Len(Split(status, ":"))])
        ELSE status

DashChars == {"-", EnDash, EmDash}

\* lines 351-353: re.split(r'\s*[-<U+2013><U+2014>]\s*', content, maxsplit=1), and
\* re.split(r'\s+', content, maxsplit=1) when that gives one part
SplitTitleOwners(content) ==
    LET d == FirstIn(content, 1, DashChars)
        w == FirstIn(content, 1, WsChars)
    IN  IF d # 0
        THEN <<RStrip(Take(content, d - 1)), LStrip(Drop(content, d))>>
        ELSE IF w # 0
        THEN <<Take(content, w - 1), LStrip(Drop(content, w))>>
        ELSE <<content>>

\* TaskParser._parse_task: None or the Task.  content is stripped by the caller.
parse_task(content, mail_date) ==
    LET sm       == StarMatch(content)
        priority == IF sm.stars > 0 THEN StarPriority(sm.stars) ELSE "normal"
        c1       == IF sm.stars > 0 THEN Strip(sm.rest) ELSE content
        dm       == DueMatch(c1)
        due_date == CleanDue(Strip(dm.group))
        c2       == CutSpan(c1, dm)
        stm      == StatusMatch(c2)
        status   == IF stm.found THEN Some(StatusOf(stm.group)) ELSE None
        c3       == IF stm.found THEN CutSpan(c2, stm) ELSE c2
        parts    == SplitTitleOwners(c3)
        members  == Strip(RemoveBrackets(Strip(parts[2])))
        owners   == parse_members(members)
        name     == Strip(RemoveBrackets(Strip(CollapseWs(Strip(parts[1])))))
    IN  IF ~dm.found THEN None
        ELSE IF Len(parts) < 2 THEN None
        ELSE IF owners = <<>> THEN None
        ELSE IF Len(name) < 2 THEN None
        ELSE Some([title |-> name, owners |-> owners, priority |-> priority,
                   due_date |-> due_date, status |-> status,
                   mail_date |-> mail_date, module |-> <<>>, mail_id |-> 0])

-----------------------------------------------------------------------------
(* TaskParser._is_valid_module and TaskParser.parse *)

AllDigits(p) == p # <<>> /\ \A i \in 1..Len(p) : IsDigit(p[i])

\* inner is a run of digit groups separated by one '-' or '/', the k-th group
\* having between lens[k][1] and lens[k][2] digits
DigitGroups(inner, lens) ==
    LET parts == SplitAny(inner, {"-", "/"})
    IN  /\ Len(parts) = Len(lens)
        /\ \A k \in 1..Len(parts) :
              AllDigits(parts[k]) /\ Len(parts[k]) \in lens[k][1]..lens[k][2]

\* str.strip('[]')
RECURSIVE StripBrackets(_)
StripBrackets(s) ==
    IF s # <<>> /\ s[1] \in {"[", "]"} THEN StripBrackets(Tail(s))
    ELSE IF s # <<>> /\ s[Len(s)] \in {"[", "]"} THEN StripBrackets(Take(s, Len(s) - 1))
    ELSE s

\* re.match(r'^\s*word\s*:', inner_lower)
MarkerColon(inner_lower, word) ==
    /\ MatchAtCI(inner_lower, 1, word)
    /\ FirstNotIn(inner_lower, Len(word) + 1, WsChars) <= Len(inner_lower)
    /\ inner_lower[FirstNotIn(inner_lower, Len(word) + 1, WsChars)] = ":"

\* re.match(r'^\s*in\s*progress\s*$', inner_lower)
InProgressMarker(inner_lower) ==
    /\ MatchAtCI(inner_lower, 1, <<"i", "n">>)
    /\ Drop(inner_lower, FirstNotIn(inner_lower, 3, WsChars) - 1)
          = <<"p", "r", "o", "g", "r", "e", "s", "s">>

\* TaskParser._is_valid_module
is_valid_module(bracket_content) ==
    LET inner       == Strip(StripBrackets(bracket_content))
        inner_lower == Lower(inner)
    IN  /\ ~MarkerColon(inner_lower, <<"s", "t", "a", "t", "u", "s">>)
        /\ ~MarkerColon(inner_lower, <<"d", "u", "e">>)
        /\ ~MarkerColon(inner_lower, <<"d", "u", "e", "d", "a", "t", "e">>)
        /\ inner_lower \notin {<<"p", "e", "n", "d", "i", "n", "g">>,
                               <<"r", "e", "s", "o", "l", "v", "e", "d">>,
                               <<"d", "o", "n", "e">>,
                               <<"c", "o", "m", "p", "l", "e", "t", "e", "d">>}
        /\ ~InProgressMarker(inner_lower)
        /\ ~(AllDigits(inner) /\ Len(inner) = 8)
        /\ ~DigitGroups(inner, <<<<4, 4>>, <<1, 2>>, <<1, 2>>>>)
        /\ ~DigitGroups(inner, <<<<1, 2>>, <<1, 2>>>>)
        /\ ~DigitGroups(inner, <<<<1, 2>>, <<1, 2>>, <<2, 4>>>>)

\* TaskParser._is_middle_priority_marker
\* the marker of the middle priority alone
IsMiddleMarker(line) ==
    Contains(Lower(Strip(line)), <<"m", "i", "d", "d", "l", "e", " ",
                                   "p", "r", "i", "o", "r", "i", "t", "y">>)

is_middle_priority_marker(line) ==
    \/ Contains(Lower(Strip(line)),
                <<"m", "i", "d", "d", "l", "e", " ", "p", "r", "i", "o", "r", "i", "t", "y">>)
    \/ Contains(Lower(Strip(line)),
                <<"l", "o", "w", " ", "p", "r", "i", "o", "r", "i", "t", "y">>)

\* re.match(r'^(\[[^\]]+\](?:\[[^\]]+\])*)\s*$', line) for a stripped line
RECURSIVE IsBracketGroups(_)
IsBracketGroups(line) ==
    /\ line # <<>>
    /\ line[1] = "["
    /\ FirstIn(line, 2, {"]"}) > 2
    /\ \/ FirstIn(line, 2, {"]"}) = Len(line)
       \/ IsBracketGroups(Drop(line, FirstIn(line, 2, {"]"})))

\* re.match(r'^(\[[^\]]+\])', potential_module).group(1)
FirstBracket(line) == Take(line, FirstIn(line, 2, {"]"}))

\* re.match(r'^(\d+)[.\)<U+3001>]\s*(.+)$', line) for a stripped line: is there a
\* match, and match.group(2).strip()
IsNumbered(line) ==
    LET n == FirstNotIn(line, 1, Range(Digits)) - 1
    IN  n >= 1 /\ n + 2 <= Len(line) /\ line[n + 1] \in {".", ")", IdeoComma}

NumberedContent(line) == Strip(Drop(line, FirstNotIn(line, 1, Range(Digits))))

\* the parser's state when a message starts, were the module of the message
\* before carried over
ParserCarrying(ts) ==
    [tasks |-> ts,
     current_module |-> IF ts = <<>> THEN <<>> ELSE ts[Len(ts)].module,
     stop_parsing |-> FALSE]

\* lines 295-296: the parser's state when a message starts
ParserStart(ts) == [tasks |-> ts, current_module |-> <<>>, stop_parsing |-> FALSE]

\* lines 299-322: one turn of the loop over the lines of a message
ParseLine(ps, raw_line, mail_date, mail_id, exclude_middle_priority) ==
    LET line == Strip(raw_line)
        task == parse_task(NumberedContent(line), mail_date)
    IN  IF ps.stop_parsing THEN ps
        ELSE IF exclude_middle_priority /\ is_middle_priority_marker(line)
        THEN [ps EXCEPT !.stop_parsing = TRUE]
        ELSE IF IsBracketGroups(line)
        THEN IF is_valid_module(FirstBracket(line))
             THEN [ps EXCEPT !.current_module = line]
             ELSE ps
        ELSE IF IsNumbered(line) /\ task # None
        THEN [ps EXCEPT !.tasks = Append(@, [task[1] EXCEPT
                                    !.module = ps.current_module,
                                    !.mail_id = mail_id])]
        ELSE ps

RECURSIVE ParseLines(_, _, _, _, _)
ParseLines(ps, lines, mail_date, mail_id, exclude_middle_priority) ==
    IF lines = <<>> THEN ps
    ELSE ParseLines(ParseLine(ps, lines[1], mail_date, mail_id, exclude_middle_priority),
                    Tail(lines), mail_date, mail_id, exclude_middle_priority)

\* TaskParser.parse on a plain-text body given as its lines (body.split('\n')):
\* the parser's tasks afterwards
parse(ts, lines, mail_date, mail_id, exclude_middle_priority) ==
    ParseLines(ParserStart(ts), lines, mail_date, mail_id, exclude_middle_priority).tasks

-----------------------------------------------------------------------------
(* Dates: datetime.strptime(s, "%Y-%m-%d"), datetime(y, m, d), timedelta *)

\* the empty string, which Stats.last_mail_date starts as
NoDate == <<0, 0, 0>>

\* a < b for two "YYYY-MM-DD" strings (or the empty string)
DateLess(a, b) ==
    \/ a[1] < b[1]
    \/ a[1] = b[1] /\ a[2] < b[2]
    \/ a[1] = b[1] /\ a[2] = b[2] /\ a[3] < b[3]

IsLeap(y) == (y % 4 = 0 /\ y % 100 # 0) \/ y % 400 = 0

DaysInMonth(y, m) ==
    IF m = 2 THEN (IF IsLeap(y) THEN 29 ELSE 28)
    ELSE IF m \in {4, 6, 9, 11} THEN 30 ELSE 31

\* a month of the year and a day no month is longer than
DayUpTo31(y, m, d) ==
    /\ y \in 1..9999
    /\ m \in 1..12
    /\ d \in 1..31

\* does datetime(y, m, d) exist (it raises ValueError otherwise)
ValidDate(y, m, d) ==
    /\ y \in 1..9999
    /\ m \in 1..12
    /\ d >= 1 /\ d <= DaysInMonth(y, m)

RECURSIVE DaysBeforeMonth(_, _)
DaysBeforeMonth(y, m) ==
    IF m = 1 THEN 0 ELSE DaysBeforeMonth(y, m - 1) + DaysInMonth(y, m - 1)

\* datetime(y, m, d).toordinal()
Ordinal(y, m, d) ==
    365 * (y - 1) + ((y - 1) \div 4) - ((y - 1) \div 100) + ((y - 1) \div 400)
        + DaysBeforeMonth(y, m) + d

DateOrdinal(date) == Ordinal(date[1], date[2], date[3])

-----------------------------------------------------------------------------
(* Stats *)

\* Stats._task_key
task_key(title, due, owners) ==
    Lower(Strip(title)) \o <<"|">> \o due \o <<"|">> \o Join(SortStrings(owners), <<",">>)

\* the dict that Stats.add appends to raw_tasks (line 407: task.status or "-")
RawTask(task) ==
    [title |-> task.title, owners |-> task.owners, priority |-> task.priority,
     due |-> task.due_date,
     status |-> IF task.status = None \/ task.status[1] = <<>> THEN <<"-">>
                ELSE task.status[1],
     mail_date |-> task.mail_date, mail_id |-> task.mail_id, module |-> task.module,
     key |-> task_key(task.title, task.due_date, task.owners)]

\* int(s) for the strings a due token splits into: optional blanks around an
\* optional '+' and decimal digits; ok is FALSE where int() raises ValueError
RECURSIVE DigitsValue(_)
DigitsValue(ds) ==
    IF ds = <<>> THEN 0
    ELSE 10 * DigitsValue(Take(ds, Len(ds) - 1)) + DigitVal(ds[Len(ds)])

IntParse(s) ==
    LET t  == Strip(s)
        ds == IF t # <<>> /\ t[1] = "+" THEN Tail(t) ELSE t
    IN  IF AllDigits(ds) THEN [ok |-> TRUE, val |-> DigitsValue(ds)]
        ELSE [ok |-> FALSE, val |-> 0]

ThresholdDays == 180

\* the days from a due MM/DD of first_seen's year to end_date, before or after it
OverdueSigned(due_str, first_seen, end_date) ==
    LET parts == Split(Strip(Replace(due_str, "/", "-")), "-")
    IN  IF Len(parts) = 2 /\ IntParse(parts[1]).ok /\ IntParse(parts[2]).ok
           /\ ValidDate(first_seen[1], IntParse(parts[1]).val, IntParse(parts[2]).val)
        THEN DateOrdinal(end_date)
                - Ordinal(first_seen[1], IntParse(parts[1]).val, IntParse(parts[2]).val)
        ELSE 0

\* the overdue days of a due MM/DD that is put a year later when it is 180 days
\* or more before first_seen
OverdueRolledAt180(due_str, first_seen, end_date) ==
    LET parts == Split(Strip(Replace(due_str, "/", "-")), "-")
        month == IntParse(parts[1]).val
        day   == IntParse(parts[2]).val
        year  == IF Ordinal(first_seen[1], month, day)
                       <= DateOrdinal(first_seen) - ThresholdDays
                 THEN first_seen[1] + 1 ELSE first_seen[1]
        diff  == DateOrdinal(end_date) - Ordinal(year, month, day)
    IN  IF Len(parts) = 2 /\ IntParse(parts[1]).ok /\ IntParse(parts[2]).ok
           /\ ValidDate(first_seen[1], month, day) /\ ValidDate(year, month, day)
           /\ diff > 0
        THEN diff ELSE 0

\* Stats._calc_overdue_days_v2; first_seen and end_date are dates of messages or
\* today, so strptime succeeds on them
calc_overdue_days_v2(due_str, first_seen, end_date) ==
    LET parts      == Split(Strip(Replace(due_str, "/", "-")), "-")
        p1         == IntParse(parts[1])
        p2         == IntParse(parts[2])
        p3         == IntParse(parts[3])
        first_year == first_seen[1]
        rolled     == Ordinal(first_year, p1.val, p2.val)
                         < DateOrdinal(first_seen) - ThresholdDays
        year2      == IF rolled THEN first_year + 1 ELSE first_year
        year3      == IF p1.val < 100 THEN p1.val + 2000 ELSE p1.val
        diff2      == DateOrdinal(end_date) - Ordinal(year2, p1.val, p2.val)
        diff3      == DateOrdinal(end_date) - Ordinal(year3, p2.val, p3.val)
    IN  IF due_str = <<>> \/ end_date = NoDate THEN 0
        ELSE IF Len(parts) = 2
        THEN IF ~(p1.ok /\ p2.ok) THEN 0
             ELSE IF ~ValidDate(first_year, p1.val, p2.val) THEN 0
             ELSE IF ~ValidDate(year2, p1.val, p2.val) THEN 0
             ELSE IF diff2 > 0 THEN diff2 ELSE 0
        ELSE IF Len(parts) = 3
        THEN IF ~(p1.ok /\ p2.ok /\ p3.ok) THEN 0
             ELSE IF ~ValidDate(year3, p2.val, p3.val) THEN 0
             ELSE IF diff3 > 0 THEN diff3 ELSE 0
        ELSE 0

\* the difference of the two dates, the first day not counted
DaysBetweenExclusive(start, end) == DateOrdinal(end) - DateOrdinal(start)

\* Stats._calc_days_between, for two dates of messages
calc_days_between(start, end) == DateOrdinal(end) - DateOrdinal(start) + 1

\* sorted(tasks_by_date.keys())
RECURSIVE InsertDate(_, _)
InsertDate(sorted, d) ==
    IF sorted = <<>> THEN <<d>>
    ELSE IF d = sorted[1] THEN sorted
    ELSE IF DateLess(d, sorted[1]) THEN <<d>> \o sorted
    ELSE <<sorted[1]>> \o InsertDate(Tail(sorted), d)

\* the dates of the records in the order they were first added
RECURSIVE DatesAsAdded(_)
DatesAsAdded(raw) ==
    IF raw = <<>> THEN <<>>
    ELSE LET before == DatesAsAdded(Take(raw, Len(raw) - 1))
         IN  IF raw[Len(raw)].mail_date \in Range(before) THEN before
             ELSE Append(before, raw[Len(raw)].mail_date)

RECURSIVE SortedDates(_)
SortedDates(raw) ==
    IF raw = <<>> THEN <<>>
    ELSE InsertDate(SortedDates(Take(raw, Len(raw) - 1)), raw[Len(raw)].mail_date)

\* tasks_by_date[mail_date]
TasksOfDate(raw, mail_date) == SelectSeq(raw, LAMBDA t : t.mail_date = mail_date)

\* line 445
priority_order(p) ==
    IF p = "high" THEN 3 ELSE IF p = "medium" THEN 2 ELSE IF p = "normal" THEN 1 ELSE 0

\* a later copy of equal priority replacing the one held
ReplacesOnTie(t, existing) == priority_order(t.priority) >= priority_order(existing.priority)

\* line 446: does t replace the copy the day's map holds
Replaces(t, existing) == priority_order(t.priority) > priority_order(existing.priority)

\* lines 438-447: day_task_map, a dict, as the list of its values in insertion
\* order (each value carries its key)
RECURSIVE DayTaskMap(_)
DayTaskMap(day_tasks) ==
    IF day_tasks = <<>> THEN <<>>
    ELSE LET map == DayTaskMap(Take(day_tasks, Len(day_tasks) - 1))
             t   == day_tasks[Len(day_tasks)]
         IN  IF \A i \in 1..Len(map) : map[i].key # t.key
             THEN Append(map, t)
             ELSE [i \in 1..Len(map) |->
                     IF map[i].key = t.key /\ Replaces(t, map[i]) THEN t ELSE map[i]]

KeysOf(map) == {map[i].key : i \in 1..Len(map)}

\* lines 454-462: the completed task built from a tracker
CompletedTask(tracker, prev_date) ==
    [title |-> tracker.task_data.title, owners |-> tracker.task_data.owners,
     priority |-> tracker.task_data.priority, due |-> tracker.task_data.due,
     status |-> tracker.task_data.status, mail_date |-> tracker.task_data.mail_date,
     mail_id |-> tracker.task_data.mail_id, module |-> tracker.task_data.module,
     key |-> tracker.task_data.key,
     first_seen |-> tracker.first_seen,
     last_seen |-> prev_date,
     completed_date |-> Some(prev_date),
     task_status |-> "completed",
     overdue_days |-> calc_overdue_days_v2(tracker.task_data.due, tracker.first_seen, prev_date),
     days_spent |-> calc_days_between(tracker.first_seen, prev_date)]

\* "pending" for every status text that holds the word
OpenStatusBySubstring(status) ==
    IF Contains(Lower(status), <<"p", "e", "n", "d", "i", "n", "g">>)
    THEN "pending" ELSE "in_progress"

\* lines 482-486
OpenStatus(status) ==
    IF Lower(status) \in {<<"p", "e", "n", "d", "i", "n", "g">>,
                          <<"h", "o", "l", "d">>,
                          <<"b", "l", "o", "c", "k", "e", "d">>}
    THEN "pending" ELSE "in_progress"

\* the still-open task with its overdue days counted up to the last mail date
OpenTaskAtLastDate(tracker, last_date, now) ==
    [title |-> tracker.task_data.title, owners |-> tracker.task_data.owners,
     priority |-> tracker.task_data.priority, due |-> tracker.task_data.due,
     status |-> tracker.task_data.status, mail_date |-> tracker.task_data.mail_date,
     mail_id |-> tracker.task_data.mail_id, module |-> tracker.task_data.module,
     key |-> tracker.task_data.key,
     first_seen |-> tracker.first_seen,
     last_seen |-> last_date,
     completed_date |-> None,
     task_status |-> IF Lower(tracker.task_data.status)
                          \in {<<"p", "e", "n", "d", "i", "n", "g">>, <<"h", "o", "l", "d">>,
                               <<"b", "l", "o", "c", "k", "e", "d">>}
                     THEN "pending" ELSE "in_progress",
     overdue_days |-> calc_overdue_days_v2(tracker.task_data.due, tracker.first_seen,
                                           last_date),
     days_spent |-> DateOrdinal(last_date) - DateOrdinal(tracker.first_seen) + 1]

\* lines 478-489: the still-open task built from a tracker
OpenTask(tracker, last_date, now) ==
    [title |-> tracker.task_data.title, owners |-> tracker.task_data.owners,
     priority |-> tracker.task_data.priority, due |-> tracker.task_data.due,
     status |-> tracker.task_data.status, mail_date |-> tracker.task_data.mail_date,
     mail_id |-> tracker.task_data.mail_id, module |-> tracker.task_data.module,
     key |-> tracker.task_data.key,
     first_seen |-> tracker.first_seen,
     last_seen |-> last_date,
     completed_date |-> None,
     task_status |-> OpenStatus(tracker.task_data.status),
     overdue_days |-> calc_overdue_days_v2(tracker.task_data.due, tracker.first_seen, now),
     days_spent |-> calc_days_between(tracker.first_seen, last_date)]

-----------------------------------------------------------------------------
(* Stats._process_tasks *)

\* the distinct keys of raw_tasks in the order of their first appearance
RECURSIVE KeysInOrder(_)
KeysInOrder(raw) ==
    IF raw = <<>> THEN <<>>
    ELSE LET ks == KeysInOrder(Take(raw, Len(raw) - 1))
         IN  IF raw[Len(raw)].key \in Range(ks) THEN ks ELSE Append(ks, raw[Len(raw)].key)

Reverse(l) == [i \in 1..Len(l) |-> l[Len(l) + 1 - i]]

\* 'for key in prev_date_keys' iterates a set of strings: its order is fixed by
\* the interpreter's string hashing for the life of the process.  order
\* stands for it: the keys of S in the order of their first appearance in
\* raw_tasks, or in the reverse of it.
SetIteration(S, raw, order) ==
    LET ks == IF order = 0 THEN KeysInOrder(raw) ELSE Reverse(KeysInOrder(raw))
    IN  SelectSeq(ks, LAMBDA k : k \in S)

\* lines 432-434
WalkStart == [task_tracker |-> <<>>, final_tasks |-> <<>>, prev_date_keys |-> {}]

TrackerHas(task_tracker, key) == \E i \in 1..Len(task_tracker) : task_tracker[i].key = key

TrackerOf(task_tracker, key) ==
    task_tracker[CHOOSE i \in 1..Len(task_tracker) : task_tracker[i].key = key]

EntryOf(map, key) == map[CHOOSE i \in 1..Len(map) : map[i].key = key]

\* no key finalized as completed in the loop over the dates
NeverCompletes(w, key, current_date_keys) == FALSE

\* line 452: is the key finalized as completed at this date
Completes(w, key, current_date_keys) ==
    /\ key \notin current_date_keys
    /\ TrackerHas(w.task_tracker, key)
    /\ TrackerOf(w.task_tracker, key).active

\* the date being processed, where line 455 takes the one before it
CurrentDate(sorted_dates, date_idx) == sorted_dates[date_idx]

\* line 455
PrevDate(sorted_dates, date_idx) ==
    IF date_idx > 1 THEN sorted_dates[date_idx - 1] ELSE sorted_dates[date_idx]

\* a tracker entry that is resumed, its first_seen kept, when the key comes back
Resumed(entry, task_data, mail_date) ==
    [key |-> entry.key, first_seen |-> entry.first_seen, task_data |-> task_data,
     active |-> TRUE]

\* a tracker entry that keeps the record it has while it is active
TrackedFirstRecord(entry, task_data, mail_date) ==
    IF entry.active
    THEN entry
    ELSE [key |-> entry.key, first_seen |-> mail_date, task_data |-> task_data,
          active |-> TRUE]

\* lines 465-469: the tracker entry of a key that the day's map holds
Tracked(entry, task_data, mail_date) ==
    IF entry.active
    THEN [entry EXCEPT !.task_data = task_data]
    ELSE [key |-> entry.key, first_seen |-> mail_date, task_data |-> task_data,
          active |-> TRUE]

\* lines 437-471: one turn of the loop over sorted_dates (date_idx counts from 1)
WalkDate(w, raw, sorted_dates, date_idx, order) ==
    LET mail_date    == sorted_dates[date_idx]
        day_task_map == DayTaskMap(TasksOfDate(raw, mail_date))
        current_date_keys == KeysOf(day_task_map)
        done         == SelectSeq(SetIteration(w.prev_date_keys, raw, order),
                                  LAMBDA k : Completes(w, k, current_date_keys))
        prev_date    == PrevDate(sorted_dates, date_idx)
        closed       == [i \in 1..Len(w.task_tracker) |->
                           IF w.task_tracker[i].key \in Range(done)
                           THEN [w.task_tracker[i] EXCEPT !.active = FALSE]
                           ELSE w.task_tracker[i]]
        kept         == [i \in 1..Len(closed) |->
                           IF closed[i].key \in current_date_keys
                           THEN Tracked(closed[i], EntryOf(day_task_map, closed[i].key),
                                        mail_date)
                           ELSE closed[i]]
        fresh        == SelectSeq(day_task_map, LAMBDA t : ~TrackerHas(closed, t.key))
    IN  [task_tracker |->
            kept \o [i \in 1..Len(fresh) |->
                        [key |-> fresh[i].key, first_seen |-> mail_date,
                         task_data |-> fresh[i], active |-> TRUE]],
         final_tasks |->
            w.final_tasks \o [i \in 1..Len(done) |->
                                CompletedTask(TrackerOf(w.task_tracker, done[i]), prev_date)],
         prev_date_keys |-> current_date_keys]

\* the loop's state after the first n dates
RECURSIVE WalkTo(_, _, _)
WalkTo(raw, n, order) ==
    IF n = 0 THEN WalkStart
    ELSE WalkDate(WalkTo(raw, n - 1, order), raw, SortedDates(raw), n, order)

\* every tracker entry finalized as open, the inactive ones too
FinalizeEvery(w, last_date, now) ==
    w.final_tasks
       \o [i \in 1..Len(w.task_tracker) |-> OpenTask(w.task_tracker[i], last_date, now)]

\* lines 473-490
FinalizeOpen(w, last_date, now) ==
    LET open == SelectSeq(w.task_tracker, LAMBDA tr : tr.active)
    IN  w.final_tasks \o [i \in 1..Len(open) |-> OpenTask(open[i], last_date, now)]

\* Stats._process_tasks, with datetime.now() = now
process_tasks(raw, now, order) ==
    IF raw = <<>> THEN <<>>
    ELSE FinalizeOpen(WalkTo(raw, Len(SortedDates(raw)), order),
                      SortedDates(raw)[Len(SortedDates(raw))], now)

-----------------------------------------------------------------------------
(* Stats.summary: the contribution table *)

\* sum(1 for t in ts if ...): the number of the tasks that satisfy P
CountOf(ts, P(_)) == Cardinality({j \in 1..Len(ts) : P(ts[j])})

\* sum(t.get("overdue_days", 0) for t in ts)
RECURSIVE SumOverdueDays(_)
SumOverdueDays(ts) ==
    IF ts = <<>> THEN 0 ELSE ts[1].overdue_days + SumOverdueDays(Tail(ts))

\* round(x, 1) for x = num / den >= 0, in tenths: the nearest tenth, the even one
\* of the two when x is halfway (the values met here are never within a
\* rounding error of halfway)
RoundTenths(num, den) ==
    LET q == (10 * num) \div den
        r == (10 * num) % den
    IN  IF 2 * r > den THEN q + 1
        ELSE IF 2 * r < den THEN q
        ELSE IF q % 2 = 0 THEN q ELSE q + 1

\* line 582: is avg_overdue_days > 7, avg_overdue_days being total / count
AvgGate(overdue_task_count, total_overdue_days) ==
    overdue_task_count > 0 /\ total_overdue_days > 7 * overdue_task_count

\* the rate held against a third
RateGateAboveThird(overdue_task_count, task_count) == 3 * overdue_task_count > task_count

\* line 584: is overdue_rate > 0.3, overdue_rate being count / task_count
RateGate(overdue_task_count, task_count) == 10 * overdue_task_count > 3 * task_count

\* the penalty with its third term added only where the second is
PenaltyNested(task_count, overdue_task_count, total_overdue_days) ==
    IF task_count = 0 \/ overdue_task_count = 0 THEN [num |-> 0, den |-> 1]
    ELSE [num |-> 7 * overdue_task_count * overdue_task_count
                    + (IF AvgGate(overdue_task_count, total_overdue_days)
                       THEN 2 * total_overdue_days
                            + (IF RateGate(overdue_task_count, task_count)
                               THEN 28 * overdue_task_count ELSE 0)
                       ELSE 0),
          den |-> 14 * overdue_task_count]

\* lines 578-585: overdue_penalty as the fraction num / den
overdue_penalty(task_count, overdue_task_count, total_overdue_days) ==
    IF task_count = 0 \/ overdue_task_count = 0 THEN [num |-> 0, den |-> 1]
    ELSE [num |-> 7 * overdue_task_count * overdue_task_count
                    + (IF AvgGate(overdue_task_count, total_overdue_days)
                       THEN 2 * total_overdue_days ELSE 0)
                    + (IF RateGate(overdue_task_count, task_count)
                       THEN 28 * overdue_task_count ELSE 0),
          den |-> 14 * overdue_task_count]

\* the difference of the two, not held at 0
ScoreBelowZero(weighted_score, penalty) == weighted_score * penalty.den - penalty.num

\* line 587: max(0, weighted_score - overdue_penalty), as the numerator of the
\* fraction over penalty.den
final_score(weighted_score, penalty) ==
    IF weighted_score * penalty.den > penalty.num
    THEN weighted_score * penalty.den - penalty.num ELSE 0

\* line 551: the tasks the figures of member n are taken over
MemberTasks(final, n) == SelectSeq(final, LAMBDA t : n \in Range(t.owners))

\* lines 550-607: the entry of member n; overdue_penalty and score are in tenths
ContributionOf(final, n) ==
    LET m_tasks            == MemberTasks(final, n)
        high_count         == CountOf(m_tasks, LAMBDA t : t.priority = "high")
        med_count          == CountOf(m_tasks, LAMBDA t : t.priority = "medium")
        nor_count          == CountOf(m_tasks, LAMBDA t : t.priority = "normal")
        task_count         == Len(m_tasks)
        weighted_score     == high_count * 3 + med_count * 2 + nor_count * 1
        overdue_tasks      == SelectSeq(m_tasks, LAMBDA t : t.overdue_days > 0)
        overdue_task_count == Len(overdue_tasks)
        total_overdue_days == SumOverdueDays(overdue_tasks)
        penalty            == overdue_penalty(task_count, overdue_task_count,
                                              total_overdue_days)
        final_num          == final_score(weighted_score, penalty)
    IN  [name |-> n, task_count |-> task_count,
         high |-> high_count, medium |-> med_count, normal |-> nor_count,
         base_score |-> weighted_score,
         overdue_count |-> overdue_task_count,
         overdue_days |-> total_overdue_days,
         completed_overdue_days |->
            SumOverdueDays(SelectSeq(overdue_tasks,
                                     LAMBDA t : t.task_status = "completed")),
         active_overdue_days |->
            SumOverdueDays(SelectSeq(overdue_tasks,
                                     LAMBDA t : t.task_status # "completed")),
         overdue_penalty |-> RoundTenths(penalty.num, penalty.den),
         score |-> RoundTenths(final_num, penalty.den)]

\* an entry going before another of the same score as well
SortsBeforeOrTied(c, e) == c.score >= e.score

\* does entry c go before entry e in contribution.sort(key=lambda x: -x["score"])
SortsBefore(c, e) == c.score > e.score

\* line 609: list.sort is stable; the entries are inserted from the last to the
\* first, each before the first entry it does not sort after
RECURSIVE InsertByScore(_, _)
InsertByScore(c, sorted) ==
    IF sorted = <<>> THEN <<c>>
    ELSE IF SortsBefore(sorted[1], c)
    THEN <<sorted[1]>> \o InsertByScore(c, Tail(sorted))
    ELSE <<c>> \o sorted

RECURSIVE SortByScore(_)
SortByScore(cs) ==
    IF cs = <<>> THEN <<>> ELSE InsertByScore(cs[1], SortByScore(Tail(cs)))

\* sorted(self.unique_members): the names in code point order
RECURSIVE SortedMembers(_)
SortedMembers(members) ==
    IF members = {} THEN <<>>
    ELSE LET n == CHOOSE n \in members : \A o \in members : o = n \/ StrLess(n, o)
         IN  <<n>> \o SortedMembers(members \ {n})

\* lines 548-611: the contribution list, ranked
Contribution(final, members) ==
    LET names  == SortedMembers(members)
        sorted == SortByScore([i \in 1..Len(names) |-> ContributionOf(final, names[i])])
    IN  [i \in 1..Len(sorted) |->
            [name |-> sorted[i].name, task_count |-> sorted[i].task_count,
             high |-> sorted[i].high, medium |-> sorted[i].medium,
             normal |-> sorted[i].normal, base_score |-> sorted[i].base_score,
             overdue_count |-> sorted[i].overdue_count,
             overdue_days |-> sorted[i].overdue_days,
             completed_overdue_days |-> sorted[i].completed_overdue_days,
             active_overdue_days |-> sorted[i].active_overdue_days,
             overdue_penalty |-> sorted[i].overdue_penalty,
             score |-> sorted[i].score,
             rank |-> i]]

-----------------------------------------------------------------------------
(* Stats.summary: the counts *)

\* a task counted as overdue whatever its task_status
HasOverdueDays(t) == t.overdue_days > 0

\* line 542: t["is_overdue"]
is_overdue(t) == t.overdue_days > 0 /\ t.task_status # "completed"

\* lines 531-542 and 613-615: the counts of the summary, and is_overdue of each
\* task of all_tasks
Totals(final) ==
    LET active_tasks  == SelectSeq(final, LAMBDA t : t.task_status # "completed")
        overdue_count == Cardinality({j \in 1..Len(active_tasks) :
                                         active_tasks[j].overdue_days > 0})
        Status(v)     == Cardinality({j \in 1..Len(final) : final[j].task_status = v})
        Priority(v)   == Cardinality({j \in 1..Len(final) : final[j].priority = v})
    IN  [total_tasks |-> Len(final),
         completed_count |-> Status("completed"),
         pending_count |-> Status("pending"),
         in_progress_count |-> Status("in_progress"),
         overdue_count |-> overdue_count,
         not_overdue_count |-> Len(active_tasks) - overdue_count,
         priority_counts |-> [v \in {"high", "medium", "normal"} |-> Priority(v)],
         is_overdue |-> [j \in 1..Len(final) |-> is_overdue(final[j])]]

-----------------------------------------------------------------------------
(* The inputs *)

\* at most MaxMails messages are read from the folder
MaxMails == 3

\* summary() is called at most MaxRuns times on one Stats
MaxRuns == 2

\* the dates of the messages (ReceivedTime), ascending
MailDates == <<<<2025, 11, 1>>, <<2025, 11, 5>>, <<2025, 11, 10>>>>

\* the dates the summary is asked for (datetime.now()), ascending
Todays == <<<<2025, 11, 20>>, <<2025, 11, 24>>>>

FixBugLine ==
    <<"1", ".", " ", "F", "i", "x", " ", "b", "u", "g", " ", EnDash, " ",
      "A", "l", "i", "c", "e", "/", "B", "o", "b", " ",
      "[", "D", "u", "e", ":", " ", "1", "1", "2", "6", "]">>

\* the same task with another title case, owner order, priority and status
FixBugUrgentLine ==
    <<"2", ")", " ", "*", "*", "*", "f", "i", "x", " ", "B", "U", "G", " ", "-", " ",
      "B", "o", "b", "/", "A", "l", "i", "c", "e", " ",
      "[", "D", "u", "e", ":", " ", "1", "1", "2", "6", "]", " ",
      "[", "S", "t", "a", "t", "u", "s", ":", " ",
      "P", "e", "n", "d", "i", "n", "g", " ", "r", "e", "v", "i", "e", "w", "]">>

WriteDocLine ==
    <<"1", ".", " ", "*", "*", "W", "r", "i", "t", "e", " ", "d", "o", "c", " ", "-", " ",
      "B", "o", "b", " ", "[", "D", "u", "e", ":", " ", "1", "1", "/", "0", "3", "]", " ",
      "[", "S", "t", "a", "t", "u", "s", ":", " ", "H", "o", "l", "d", "]">>

FixBugLateLine ==
    <<"1", ".", " ", "F", "i", "x", " ", "b", "u", "g", " ", EnDash, " ",
      "A", "l", "i", "c", "e", "/", "B", "o", "b", " ",
      "[", "D", "u", "e", ":", " ", "1", "1", "0", "1", "]">>

PlanLine ==
    <<"2", ".", " ", "P", "l", "a", "n", " ", "-", " ", "A", "l", " ",
      "[", "D", "u", "e", ":", " ", "T", "B", "D", "]", " ",
      "[", "p", "e", "n", "d", "i", "n", "g", "]">>

\* a numbered line whose owner text has no valid name
NoOwnerLine ==
    <<"3", ".", " ", "R", "e", "v", "i", "e", "w", " ", "-", " ",
      "4", "2", "/", "x", "!", "/", "_", "b", " ",
      "[", "D", "u", "e", ":", " ", "1", "1", "/", "2", "6", "]">>

GreetingLine == <<"H", "i", " ", "a", "l", "l", ",">>

\* the bodies of the messages, each as its lines
Bodies == <<
    <<GreetingLine, FixBugLine, NoOwnerLine>>,
    <<WriteDocLine, FixBugUrgentLine>>,
    <<GreetingLine>>,
    <<FixBugLateLine, PlanLine>> >>

-----------------------------------------------------------------------------
(* api_outlook: get_messages, TaskParser.parse, Stats.add, Stats.summary *)

Init ==
    /\ pc = "parse"
    /\ request_exclude = TRUE
    /\ mails = <<>>
    /\ tasks = <<>>
    /\ raw_tasks = <<>>
    /\ unique_members = {}
    /\ last_mail_date = NoDate
    /\ all_tasks = <<>>
    /\ contribution = <<>>
    /\ totals = Totals(<<>>)
    /\ today = NoDate
    /\ runs = 0
    /\ hash_order \in {0, 1}

\* Stats.add
add(stats, task) ==
    [raw_tasks      |-> Append(stats.raw_tasks, RawTask(task)),
     unique_members |-> stats.unique_members \cup Range(task.owners),
     last_mail_date |-> IF DateLess(stats.last_mail_date, task.mail_date)
                        THEN task.mail_date ELSE stats.last_mail_date]

\* Stats.__init__
NewStats == [raw_tasks |-> <<>>, unique_members |-> {}, last_mail_date |-> NoDate]

\* lines 4441-4443: stats = Stats(); for t in parser.tasks: stats.add(t)
RECURSIVE AddAll(_)
AddAll(ts) ==
    IF ts = <<>> THEN NewStats
    ELSE add(AddAll(Take(ts, Len(ts) - 1)), ts[Len(ts)])

\* lines 4438-4440: the next message of get_messages (newest first: line 155) is
\* parsed; its mail_id is unique to it
ParseMail ==
    /\ pc = "parse"
    /\ Len(mails) < MaxMails
    /\ \E d \in 1..Len(MailDates), b \in 1..Len(Bodies) :
          /\ IF mails = <<>> THEN TRUE
             ELSE ~DateLess(mails[Len(mails)].date, MailDates[d])
          /\ mails' = Append(mails, [date |-> MailDates[d], body |-> b])
          /\ tasks' = parse(tasks, Bodies[b], MailDates[d], Len(mails) + 1,
                            request_exclude)
    /\ UNCHANGED <<pc, request_exclude, raw_tasks, unique_members,
                   last_mail_date, all_tasks, contribution, totals, today, runs, hash_order>>

\* lines 4441-4443
Collect ==
    /\ pc = "parse"
    /\ pc' = "ready"
    /\ raw_tasks' = AddAll(tasks).raw_tasks
    /\ unique_members' = AddAll(tasks).unique_members
    /\ last_mail_date' = AddAll(tasks).last_mail_date
    /\ UNCHANGED <<request_exclude, mails, tasks, all_tasks, contribution, totals, today,
                   runs, hash_order>>

\* the dicts of raw_tasks after a run whose finalized tasks are the dicts of
\* raw_tasks themselves (no copy): what the run writes into a finalized task
\* shows in the record it was built from
RawAliased(raw, final) ==
    [i \in 1..Len(raw) |->
        IF \E j \in 1..Len(final) :
              final[j].mail_id = raw[i].mail_id /\ final[j].key = raw[i].key
                 /\ final[j].mail_date = raw[i].mail_date
                 /\ final[j].priority = raw[i].priority
        THEN final[CHOOSE j \in 1..Len(final) :
              final[j].mail_id = raw[i].mail_id /\ final[j].key = raw[i].key
                 /\ final[j].mail_date = raw[i].mail_date
                 /\ final[j].priority = raw[i].priority]
        ELSE raw[i]]

\* the dicts of raw_tasks after a run of _process_tasks and summary: every
\* finalized task is a copy (lines 454 and 478), so what lines 456-461, 479-489
\* and 542 write does not reach raw_tasks
RawAfterRun(raw, final) == raw

\* Stats.summary (line 4445, and again from Stats.excel, line 654), the clock
\* having moved on or not
Summary ==
    /\ pc \in {"ready", "done"}
    /\ runs < MaxRuns
    /\ pc' = "done"
    /\ runs' = runs + 1
    /\ \E now \in Range(Todays) :
          /\ ~DateLess(now, today)
          /\ today' = now
          /\ \E final \in {process_tasks(raw_tasks, now, hash_order)} :
                /\ all_tasks' = final
                /\ contribution' = Contribution(final, unique_members)
                /\ totals' = Totals(final)
                /\ raw_tasks' = RawAfterRun(raw_tasks, final)
    /\ UNCHANGED <<request_exclude, mails, tasks, unique_members, last_mail_date,
                   hash_order>>

Next == ParseMail \/ Collect \/ Summary

Spec == Init /\ [][Next]_vars

-----------------------------------------------------------------------------
(* api_outlook on a folder of reports of two owners' high-priority tasks *)

DesignLine ==
    <<"1", ".", " ", "*", "*", "*", "D", "e", "s", "i", "g", "n", " ", "-", " ",
      "A", "l", "i", "c", "e", "/", "B", "o", "b", " ",
      "[", "D", "u", "e", ":", " ", "1", "1", "/", "2", "0", "]">>

BuildLine ==
    <<"2", ".", " ", "*", "*", "*", "B", "u", "i", "l", "d", " ", "-", " ",
      "A", "l", "i", "c", "e", "/", "B", "o", "b", " ",
      "[", "D", "u", "e", ":", " ", "1", "1", "/", "2", "0", "]">>

AuditLine ==
    <<"3", ".", " ", "*", "*", "*", "A", "u", "d", "i", "t", " ", "-", " ",
      "A", "l", "i", "c", "e", " ",
      "[", "D", "u", "e", ":", " ", "1", "0", "/", "2", "6", "]">>

TestLine ==
    <<"4", ".", " ", "*", "*", "*", "T", "e", "s", "t", " ", "-", " ",
      "B", "o", "b", " ",
      "[", "D", "u", "e", ":", " ", "1", "1", "/", "2", "0", "]">>

ShipLine ==
    <<"1", ".", " ", "S", "h", "i", "p", " ", "-", " ", "C", "a", "r", "o", "l", " ",
      "[", "D", "u", "e", ":", " ", "1", "1", "/", "3", "0", "]">>

\* the bodies of the messages of that folder
ScoreBodies == <<
    <<DesignLine, BuildLine, AuditLine, TestLine>>,
    <<ShipLine>>,
    <<AuditLine, ShipLine>> >>

\* lines 4438-4440, on that folder
ParseScoreMail ==
    /\ pc = "parse"
    /\ Len(mails) < MaxMails
    /\ \E d \in 1..Len(MailDates), b \in 1..Len(ScoreBodies) :
          /\ IF mails = <<>> THEN TRUE
             ELSE ~DateLess(mails[Len(mails)].date, MailDates[d])
          /\ mails' = Append(mails, [date |-> MailDates[d], body |-> b])
          /\ tasks' = parse(tasks, ScoreBodies[b], MailDates[d], Len(mails) + 1,
                            request_exclude)
    /\ UNCHANGED <<pc, request_exclude, raw_tasks, unique_members,
                   last_mail_date, all_tasks, contribution, totals, today, runs, hash_order>>

NextScore == ParseScoreMail \/ Collect \/ Summary

SpecScore == Init /\ [][NextScore]_vars

-----------------------------------------------------------------------------
(* api_outlook on a folder of reports that try the overdue calculator: due
   tokens that name no calendar date (a day past the end of its month, a month
   past December, a word, four parts, an empty payload), one that names a date
   of the autumn, and two of the spring before, 180 and 181 days before the
   second date of the messages *)

\* 1. Plan - Alice [Due: 09/31] | 2. Port - Bob [Due: 13/01] | 3. Pack - Carol [Due: TBD]
\* 1. Plan - Alice [Due: 09/31] | 4. Poll - Dan [Due: 02/29] | 5. Push - Eve [Due: 1/2/3/4]
\* 6. Pull - Fay [Due: 10/26] | 7. Peek - Gus [Due: ] | 8. Post - Hal [Due: 2025/09/31]
\* 9. Roll - Ivy [Due: 05/08] | 10. Stay - Jo [Due: 05/09]
DueBodies == <<
    <<
      <<"1", ".", " ", "P", "l", "a", "n", " ", "-", " ", "A", "l", "i", "c", "e", " ",
        "[", "D", "u", "e", ":", " ", "0", "9", "/", "3", "1", "]">>,
      <<"2", ".", " ", "P", "o", "r", "t", " ", "-", " ", "B", "o", "b", " ", "[", "D",
        "u", "e", ":", " ", "1", "3", "/", "0", "1", "]">>,
      <<"3", ".", " ", "P", "a", "c", "k", " ", "-", " ", "C", "a", "r", "o", "l", " ",
        "[", "D", "u", "e", ":", " ", "T", "B", "D", "]">> >>,
    <<
      <<"1", ".", " ", "P", "l", "a", "n", " ", "-", " ", "A", "l", "i", "c", "e", " ",
        "[", "D", "u", "e", ":", " ", "0", "9", "/", "3", "1", "]">>,
      <<"4", ".", " ", "P", "o", "l", "l", " ", "-", " ", "D", "a", "n", " ", "[", "D",
        "u", "e", ":", " ", "0", "2", "/", "2", "9", "]">>,
      <<"5", ".", " ", "P", "u", "s", "h", " ", "-", " ", "E", "v", "e", " ", "[", "D",
        "u", "e", ":", " ", "1", "/", "2", "/", "3", "/", "4", "]">> >>,
    <<
      <<"6", ".", " ", "P", "u", "l", "l", " ", "-", " ", "F", "a", "y", " ", "[", "D",
        "u", "e", ":", " ", "1", "0", "/", "2", "6", "]">>,
      <<"7", ".", " ", "P", "e", "e", "k", " ", "-", " ", "G", "u", "s", " ", "[", "D",
        "u", "e", ":", " ", "]">>,
      <<"8", ".", " ", "P", "o", "s", "t", " ", "-", " ", "H", "a", "l", " ", "[", "D",
        "u", "e", ":", " ", "2", "0", "2", "5", "/", "0", "9", "/", "3", "1", "]">> >>,
    <<
      <<"9", ".", " ", "R", "o", "l", "l", " ", "-", " ", "I", "v", "y", " ", "[", "D",
        "u", "e", ":", " ", "0", "5", "/", "0", "8", "]">>,
      <<"1", "0", ".", " ", "S", "t", "a", "y", " ", "-", " ", "J", "o", " ", "[", "D",
        "u", "e", ":", " ", "0", "5", "/", "0", "9", "]">> >> >>

\* lines 4438-4440, on that folder
ParseDueMail ==
    /\ pc = "parse"
    /\ Len(mails) < MaxMails
    /\ \E d \in 1..Len(MailDates), b \in 1..Len(DueBodies) :
          /\ IF mails = <<>> THEN TRUE
             ELSE ~DateLess(mails[Len(mails)].date, MailDates[d])
          /\ mails' = Append(mails, [date |-> MailDates[d], body |-> b])
          /\ tasks' = parse(tasks, DueBodies[b], MailDates[d], Len(mails) + 1,
                            request_exclude)
    /\ UNCHANGED <<pc, request_exclude, raw_tasks, unique_members,
                   last_mail_date, all_tasks, contribution, totals, today, runs, hash_order>>

NextDue == ParseDueMail \/ Collect \/ Summary

SpecDue == Init /\ [][NextDue]_vars

-----------------------------------------------------------------------------
(* api_outlook on a folder of reports with priority sections, the option of the
   request on or off *)

MiddleLine ==
    <<"M", "i", "d", "d", "l", "e", " ", "P", "r", "i", "o", "r", "i", "t", "y", ":">>

\* a task line that holds the marker of the low priority
LowTaskLine ==
    <<"2", ".", " ", "T", "i", "d", "y", " ", "-", " ", "B", "o", "b", " ",
      "[", "D", "u", "e", ":", " ", "1", "1", "/", "3", "0", "]", " ",
      "(", "L", "O", "W", " ", "p", "r", "i", "o", "r", "i", "t", "y", ")">>

\* a task line whose owner text names one owner twice
SyncLine ==
    <<"4", ".", " ", "S", "y", "n", "c", " ", "-", " ",
      "A", "l", "i", "c", "e", "/", "B", "o", "b", "/", "A", "l", "i", "c", "e", " ",
      "[", "D", "u", "e", ":", " ", "1", "1", "/", "3", "0", "]">>

\* the bodies of the messages of that folder
ReportBodies == <<
    <<FixBugLine, MiddleLine, WriteDocLine>>,
    <<WriteDocLine, LowTaskLine, FixBugLine>>,
    <<FixBugLateLine, SyncLine>>,
    <<GreetingLine, MiddleLine>> >>

\* lines 4429 and 4437: the request gives the option, True if it does not
InitReports ==
    /\ pc = "parse"
    /\ request_exclude \in BOOLEAN
    /\ mails = <<>>
    /\ tasks = <<>>
    /\ raw_tasks = <<>>
    /\ unique_members = {}
    /\ last_mail_date = NoDate
    /\ all_tasks = <<>>
    /\ contribution = <<>>
    /\ totals = Totals(<<>>)
    /\ today = NoDate
    /\ runs = 0
    /\ hash_order \in {0, 1}

\* lines 4438-4440, on that folder
ParseReportMail ==
    /\ pc = "parse"
    /\ Len(mails) < MaxMails
    /\ \E d \in 1..Len(MailDates), b \in 1..Len(ReportBodies) :
          /\ IF mails = <<>> THEN TRUE
             ELSE ~DateLess(mails[Len(mails)].date, MailDates[d])
          /\ mails' = Append(mails, [date |-> MailDates[d], body |-> b])
          /\ tasks' = parse(tasks, ReportBodies[b], MailDates[d], Len(mails) + 1,
                            request_exclude)
    /\ UNCHANGED <<pc, request_exclude, raw_tasks, unique_members,
                   last_mail_date, all_tasks, contribution, totals, today, runs, hash_order>>

NextReports == ParseReportMail \/ Collect

SpecReports == InitReports /\ [][NextReports]_vars

-----------------------------------------------------------------------------
(* A Stats object used on its own: add() and summary() in any order *)

\* at most MaxAdds tasks are added to the Stats
MaxAdds == 3

\* the task lines the added tasks are parsed from, and their dates, in any
\* order
AddLines == <<FixBugLine, FixBugUrgentLine, WriteDocLine>>

AddDates == <<<<2025, 11, 1>>, <<2025, 11, 5>>>>

\* Stats()
InitAdd ==
    /\ pc = "ready"
    /\ request_exclude = TRUE
    /\ mails = <<>>
    /\ tasks = <<>>
    /\ raw_tasks = <<>>
    /\ unique_members = {}
    /\ last_mail_date = NoDate
    /\ all_tasks = <<>>
    /\ contribution = <<>>
    /\ totals = Totals(<<>>)
    /\ today = NoDate
    /\ runs = 0
    /\ hash_order \in {0, 1}

\* the Task parsed from each of the lines at each of the dates
AddTasks ==
    [l \in 1..Len(AddLines), d \in 1..Len(AddDates) |->
        parse(<<>>, <<AddLines[l]>>, AddDates[d], 0, TRUE)[1]]

\* Stats.add(task), before or after a summary(); tasks keeps what was added
AddTask ==
    /\ pc \in {"ready", "done"}
    /\ Len(tasks) < MaxAdds
    /\ \E l \in 1..Len(AddLines), d \in 1..Len(AddDates) :
          \E task \in {[AddTasks[l, d] EXCEPT !.mail_id = Len(tasks) + 1]} :
             \E stats \in {add([raw_tasks |-> raw_tasks, unique_members |-> unique_members,
                                last_mail_date |-> last_mail_date], task)} :
                /\ tasks' = Append(tasks, task)
                /\ raw_tasks' = stats.raw_tasks
                /\ unique_members' = stats.unique_members
                /\ last_mail_date' = stats.last_mail_date
    /\ pc' = "ready"
    /\ UNCHANGED <<request_exclude, mails, all_tasks, contribution, totals, today, runs,
                   hash_order>>

NextAdd == AddTask \/ Summary

SpecAdd == InitAdd /\ [][NextAdd]_vars

-----------------------------------------------------------------------------
(* The lifecycle walk: what the specification says of it *)

\* the ascending distinct dates of the records held
Dates == SortedDates(raw_tasks)

LastDate == Dates[Len(Dates)]

\* the walk's state after the first n dates
Walk(n) == WalkTo(raw_tasks, n, hash_order)

\* is the key carried by a record of the i-th date
Present(k, i) ==
    \E d \in {Dates[i]} :
        \E j \in 1..Len(raw_tasks) : raw_tasks[j].key = k /\ raw_tasks[j].mail_date = d

Keys == {raw_tasks[j].key : j \in 1..Len(raw_tasks)}

ActiveKeys(w) ==
    {w.task_tracker[j].key : j \in {j \in 1..Len(w.task_tracker) : w.task_tracker[j].active}}

DaysApart(from, to) == DateOrdinal(to) - DateOrdinal(from)

\* the finalized tasks of a key
TasksOfKey(k) == {j \in 1..Len(all_tasks) : all_tasks[j].key = k}

\* C1: at every date of the walk, each key that is active and absent from the
\* date's records is finalized exactly once, as completed, with last_seen the
\* date before, days_spent the days from first_seen to last_seen plus one,
\* overdue_days counted from first_seen up to last_seen, and is inactive
\* afterwards; nothing else is finalized at that date.
CompletedOnAbsence ==
    pc = "done" =>
        \A i \in 1..Len(Dates) :
            \A before \in {Walk(i - 1)} : \A after \in {Walk(i)} :
                LET gone == {k \in ActiveKeys(before) : ~Present(k, i)}
                    n    == Len(before.final_tasks)
                IN  /\ SubSeq(after.final_tasks, 1, n) = before.final_tasks
                    /\ Len(after.final_tasks) = n + Cardinality(gone)
                    /\ SubSeq(all_tasks, 1, Len(after.final_tasks)) = after.final_tasks
                    /\ \A k \in gone :
                          /\ i > 1
                          /\ k \notin ActiveKeys(after)
                          /\ \E j \in (n + 1)..Len(after.final_tasks) :
                                LET t == all_tasks[j]
                                IN  /\ t.key = k
                                    /\ t.task_status = "completed"
                                    /\ t.last_seen = Dates[i - 1]
                                    /\ t.first_seen
                                         = TrackerOf(before.task_tracker, k).first_seen
                                    /\ t.days_spent
                                         = DaysApart(t.first_seen, t.last_seen) + 1
                                    /\ t.overdue_days
                                         = calc_overdue_days_v2(t.due, t.first_seen,
                                                                t.last_seen)
                          /\ Cardinality({j \in TasksOfKey(k) :
                                             all_tasks[j].last_seen = Dates[i - 1]}) = 1

\* a task that was completed after its due date: its overdue days stop at the
\* last date it was seen
CompletedLate ==
    /\ pc = "done"
    /\ \E j \in 1..Len(all_tasks) :
          /\ all_tasks[j].task_status = "completed"
          /\ all_tasks[j].overdue_days > 0
          /\ all_tasks[j].days_spent > 1
          /\ DateLess(all_tasks[j].last_seen, LastDate)

\* the key of "Fix bug - Alice/Bob [Due: 1126]"
FixBugKey ==
    LET t == parse(<<>>, <<FixBugLine>>, MailDates[1], 1, TRUE)[1]
    IN  task_key(t.title, t.due_date, t.owners)

\* is the key extracted from a message of that date
ExtractedOn(k, d) ==
    \E j \in 1..Len(tasks) :
        /\ tasks[j].mail_date = d
        /\ task_key(tasks[j].title, tasks[j].due_date, tasks[j].owners) = k

\* C2 (scenario A): the task extracted from the messages of 2025-11-01 and
\* 2025-11-05 and from none of 2025-11-10 is finalized as completed with
\* last_seen 2025-11-05, overdue_days 0 and days_spent 5, whatever the messages of
\* 2025-11-10 hold.
ScenarioA ==
    ( /\ pc = "done"
      /\ ExtractedOn(FixBugKey, <<2025, 11, 1>>)
      /\ ExtractedOn(FixBugKey, <<2025, 11, 5>>)
      /\ \E m \in 1..Len(mails) : mails[m].date = <<2025, 11, 10>>
      /\ ~ExtractedOn(FixBugKey, <<2025, 11, 10>>) )
    => \E j \in 1..Len(all_tasks) :
          /\ all_tasks[j].key = FixBugKey
          /\ all_tasks[j].task_status = "completed"
          /\ all_tasks[j].last_seen = <<2025, 11, 5>>
          /\ all_tasks[j].overdue_days = 0
          /\ all_tasks[j].days_spent = 5

\* the dates a..b are a longest stretch of consecutive dates that carry the key
IsRun(k, a, b) ==
    /\ a <= b
    /\ \A i \in a..b : Present(k, i)
    /\ a = 1 \/ ~Present(k, a - 1)
    /\ b = Len(Dates) \/ ~Present(k, b + 1)

IndexPairs == (1..Len(Dates)) \X (1..Len(Dates))

\* C3: a key present on the consecutive dates D1 < ... < Dk and absent before
\* and after them gives one finalized task with first_seen = D1, last_seen = Dk
\* and days_spent = (Dk - D1 in days) + 1; every finalized task comes from such a
\* stretch, and it is completed only if a date follows Dk and lacks the key.
Monotonicity ==
    pc = "done" =>
        \A dates \in {Dates} :
            /\ \A k \in Keys : \A ab \in IndexPairs :
                  IsRun(k, ab[1], ab[2]) =>
                     /\ Cardinality({j \in TasksOfKey(k) :
                                        all_tasks[j].first_seen = dates[ab[1]]}) = 1
                     /\ \A j \in TasksOfKey(k) :
                           all_tasks[j].first_seen = dates[ab[1]] =>
                              /\ all_tasks[j].last_seen = dates[ab[2]]
                              /\ all_tasks[j].days_spent
                                   = DaysApart(dates[ab[1]], dates[ab[2]]) + 1
                              /\ ab[2] < Len(dates) =>
                                    all_tasks[j].task_status = "completed"
            /\ \A j \in 1..Len(all_tasks) :
                  \E ab \in IndexPairs :
                     /\ all_tasks[j].first_seen = dates[ab[1]]
                     /\ all_tasks[j].last_seen = dates[ab[2]]
                     /\ IsRun(all_tasks[j].key, ab[1], ab[2])
                     /\ all_tasks[j].task_status = "completed" =>
                           ab[2] < Len(dates) /\ ~Present(all_tasks[j].key, ab[2] + 1)

\* a task seen on the first two of three dates and not on the third
SeenTwiceThenAbsent ==
    /\ pc = "done"
    /\ Len(Dates) = 3
    /\ \E j \in 1..Len(all_tasks) :
          /\ IsRun(all_tasks[j].key, 1, 2)
          /\ all_tasks[j].first_seen = Dates[1]
          /\ all_tasks[j].task_status = "completed"

\* C4: a key that has a completed task and comes back at a later date starts a
\* new lifecycle: the tracker's first_seen is the date it came back, one more
\* finalized task of the key has that first_seen, and the tasks finalized
\* before that date stand as they were.
NewLifecycleOnReturn ==
    pc = "done" =>
        \A i \in 2..Len(Dates) :
            \A before \in {Walk(i - 1)} : \A after \in {Walk(i)} :
                \A k \in Keys :
                    LET n == Len(before.final_tasks)
                    IN  ( /\ \E j \in 1..n : before.final_tasks[j].key = k
                          /\ k \notin ActiveKeys(before)
                          /\ Present(k, i) )
                        => /\ k \in ActiveKeys(after)
                           /\ TrackerOf(after.task_tracker, k).first_seen = Dates[i]
                           /\ SubSeq(all_tasks, 1, n) = before.final_tasks
                           /\ \A j \in 1..n :
                                 all_tasks[j].key = k =>
                                    /\ all_tasks[j].task_status = "completed"
                                    /\ DateLess(all_tasks[j].last_seen, Dates[i - 1])
                                    /\ ~DateLess(all_tasks[j].last_seen,
                                                 all_tasks[j].first_seen)
                                    /\ all_tasks[j].mail_date = all_tasks[j].last_seen
                           /\ Cardinality({j \in TasksOfKey(k) : j > n
                                              /\ all_tasks[j].first_seen = Dates[i]}) = 1

\* a key with a completed task and a later task that starts after a gap
CameBack ==
    /\ pc = "done"
    /\ \E j1, j2 \in 1..Len(all_tasks) :
          /\ all_tasks[j1].key = all_tasks[j2].key
          /\ all_tasks[j1].task_status = "completed"
          /\ DateLess(all_tasks[j1].last_seen, all_tasks[j2].first_seen)

PendingWord == <<"p", "e", "n", "d", "i", "n", "g">>

\* the status texts that lines 482-483 take for a pending task
PendingTexts == {PendingWord, <<"h", "o", "l", "d">>, <<"b", "l", "o", "c", "k", "e", "d">>}

\* the finalized tasks of a key that are not completed
OpenTasksOfKey(k) == {j \in TasksOfKey(k) : all_tasks[j].task_status # "completed"}

\* every key of the last date is finalized exactly once as a task that is not
\* completed, with last_seen the last date; no other key is
OpenAtLastDate ==
    /\ \A k \in Keys :
          Cardinality(OpenTasksOfKey(k)) = IF Present(k, Len(Dates)) THEN 1 ELSE 0
    /\ \A j \in 1..Len(all_tasks) :
          all_tasks[j].task_status # "completed" =>
             /\ all_tasks[j].last_seen = LastDate
             /\ all_tasks[j].task_status \in {"pending", "in_progress"}

\* C5 as the specification states it: a still-open task is finalized once with
\* last_seen the last date, and it is pending exactly when its status text
\* holds "pending" in any case.
PendingBySubstring ==
    pc = "done" =>
        /\ OpenAtLastDate
        /\ \A j \in 1..Len(all_tasks) :
              all_tasks[j].task_status # "completed" =>
                 (all_tasks[j].task_status = "pending"
                    <=> Contains(Lower(all_tasks[j].status), PendingWord))

\* C5 as the code has it: a still-open task is finalized once with last_seen
\* the last date, and it is pending exactly when its status text, in lower
\* case, is "pending", "hold" or "blocked"; it is in_progress otherwise.
PendingByExactText ==
    pc = "done" =>
        /\ OpenAtLastDate
        /\ \A j \in 1..Len(all_tasks) :
              all_tasks[j].task_status # "completed" =>
                 (all_tasks[j].task_status = "pending"
                    <=> Lower(all_tasks[j].status) \in PendingTexts)

\* a still-open task whose status text holds "pending" and more, which is
\* in_progress, next to one on hold, which is pending
PendingReviewInProgress ==
    /\ pc = "done"
    /\ \E j1, j2 \in 1..Len(all_tasks) :
          /\ all_tasks[j1].task_status = "in_progress"
          /\ Contains(Lower(all_tasks[j1].status), PendingWord)
          /\ all_tasks[j2].task_status = "pending"
          /\ ~Contains(Lower(all_tasks[j2].status), PendingWord)

\* C6: the overdue days of a still-open task are those that
\* _calc_overdue_days_v2 counts from its first_seen up to the current date, the
\* last mail date having no part in them; when summary() runs again on the same
\* records with the clock moved on, they do not decrease, and once positive
\* they grow by the days the clock moved.
OverdueFollowsClock ==
    [][ pc' = "done" =>
          /\ \A j \in 1..Len(all_tasks') :
                all_tasks'[j].task_status # "completed" =>
                   all_tasks'[j].overdue_days
                      = calc_overdue_days_v2(all_tasks'[j].due, all_tasks'[j].first_seen,
                                             today')
          /\ pc = "done" =>
                /\ Len(all_tasks') = Len(all_tasks)
                /\ \A j \in 1..Len(all_tasks) :
                      all_tasks[j].task_status # "completed" =>
                         /\ all_tasks'[j].key = all_tasks[j].key
                         /\ all_tasks'[j].task_status = all_tasks[j].task_status
                         /\ all_tasks'[j].overdue_days >= all_tasks[j].overdue_days
                         /\ all_tasks[j].overdue_days > 0 =>
                               all_tasks'[j].overdue_days
                                  = all_tasks[j].overdue_days + DaysApart(today, today')
      ]_vars

\* after a second run, a still-open task is overdue by more days than lie
\* between its due date and the last mail date
OverduePastLastMail ==
    /\ pc = "done"
    /\ runs = 2
    /\ today = Todays[2]
    /\ DateLess(last_mail_date, today)
    /\ \E j \in 1..Len(all_tasks) :
          /\ all_tasks[j].task_status # "completed"
          /\ calc_overdue_days_v2(all_tasks[j].due, all_tasks[j].first_seen, LastDate) > 0
          /\ all_tasks[j].overdue_days
               > calc_overdue_days_v2(all_tasks[j].due, all_tasks[j].first_seen, LastDate)

\* C7 (scenario B): the task with the due token "1101", first seen 2025-11-05,
\* carried by the last date and without "pending" in its status, is finalized
\* as in_progress with overdue_days the days from November 1 to today.
ScenarioB ==
    pc = "done" =>
        \A j \in 1..Len(all_tasks) :
            ( /\ all_tasks[j].due = <<"1", "1", "0", "1">>
              /\ all_tasks[j].first_seen = <<2025, 11, 5>>
              /\ all_tasks[j].last_seen = LastDate
              /\ all_tasks[j].task_status # "completed"
              /\ ~Contains(Lower(all_tasks[j].status), PendingWord) )
            => /\ all_tasks[j].task_status = "in_progress"
               /\ all_tasks[j].overdue_days = DateOrdinal(today) - Ordinal(2025, 11, 1)

Rank(p) == CASE p = "high" -> 3 [] p = "medium" -> 2 [] p = "normal" -> 1 [] OTHER -> 0

\* the records of a date that carry a key, by their place in raw_tasks
CopiesOf(k, d) ==
    {j \in 1..Len(raw_tasks) : raw_tasks[j].key = k /\ raw_tasks[j].mail_date = d}

\* the copy that is to survive: the first added of those of highest priority
Survivor(k, d) ==
    raw_tasks[CHOOSE j \in CopiesOf(k, d) :
                \A j2 \in CopiesOf(k, d) :
                    \/ Rank(raw_tasks[j2].priority) < Rank(raw_tasks[j].priority)
                    \/ Rank(raw_tasks[j2].priority) = Rank(raw_tasks[j].priority) /\ j <= j2]

\* the attributes a finalized task takes from a record
SameRecord(t, r) ==
    /\ t.title = r.title /\ t.owners = r.owners /\ t.priority = r.priority
    /\ t.due = r.due /\ t.status = r.status /\ t.mail_date = r.mail_date
    /\ t.mail_id = r.mail_id /\ t.module = r.module /\ t.key = r.key

\* C8: the snapshot of a date holds, for every key of the date, exactly one
\* record, the first added of those of highest priority; and every finalized
\* task has all its attributes from the surviving copy of its key at the date
\* of its record, none from a copy that was discarded.
SameDayDedup ==
    pc = "done" =>
        /\ \A i \in 1..Len(Dates) :
              LET snapshot == DayTaskMap(TasksOfDate(raw_tasks, Dates[i]))
              IN  /\ KeysOf(snapshot) = {k \in Keys : Present(k, i)}
                  /\ \A k \in KeysOf(snapshot) :
                        /\ Cardinality({j \in 1..Len(snapshot) : snapshot[j].key = k}) = 1
                        /\ EntryOf(snapshot, k) = Survivor(k, Dates[i])
        /\ \A j \in 1..Len(all_tasks) :
              /\ all_tasks[j].mail_date = all_tasks[j].last_seen
              /\ SameRecord(all_tasks[j], Survivor(all_tasks[j].key, all_tasks[j].mail_date))

\* a date with two copies of a key of different priority and two of equal
\* priority from different messages, and a finalized task from that date
DuplicatesOnOneDate ==
    /\ pc = "done"
    /\ \E j \in 1..Len(all_tasks) :
          LET copies == CopiesOf(all_tasks[j].key, all_tasks[j].mail_date)
          IN  /\ \E a, b \in copies :
                    Rank(raw_tasks[a].priority) < Rank(raw_tasks[b].priority)
              /\ \E a, b \in copies :
                    /\ a < b
                    /\ raw_tasks[a].priority = raw_tasks[b].priority
                    /\ raw_tasks[a].mail_id # raw_tasks[b].mail_id
                    /\ raw_tasks[a].priority = all_tasks[j].priority

\* is s a due payload of 2 to 4 digits with an optional slash between them
IsDuePayload(s) ==
    \/ Len(s) \in 2..4 /\ AllDigits(s)
    \/ \E m, n \in 1..2 :
          /\ Len(s) = m + n + 1
          /\ AllDigits(Take(s, m)) /\ s[m + 1] = "/" /\ AllDigits(Drop(s, m + 1))

\* has the line a recognizable due token: "[Due", "[Due date" or "[Duedate",
\* a colon or blanks, and such a payload up to the "]"; or a bare "[MM/DD]"
HasDueToken(line) ==
    \/ \E i \in 1..Len(line) :
          /\ DueAt(line, i)
          /\ IsDuePayload(CleanDue(Strip(
                SubSeq(line, i + 4, FirstIn(line, i + 4, {"]"}) - 1))))
    \/ \E i \in 1..Len(line), m, n \in 1..2 : BareDueAt(line, i, m, n)

\* the tasks recorded from the m-th message
TasksOfMail(m) == {j \in 1..Len(tasks) : tasks[j].mail_id = m}

\* C10: a numbered line without a recognizable due token gives no record, a
\* bracketed Due group with a payload that is not numeric included: a message
\* gives at most as many records as it has numbered lines with such a token,
\* and every record's due is such a payload.
NoRecordWithoutDue ==
    /\ \A m \in 1..Len(mails) :
          Cardinality(TasksOfMail(m))
             <= Cardinality({l \in 1..Len(Bodies[mails[m].body]) :
                               /\ IsNumbered(Strip(Bodies[mails[m].body][l]))
                               /\ HasDueToken(Bodies[mails[m].body][l])})
    /\ \A j \in 1..Len(tasks) : IsDuePayload(tasks[j].due_date)

-----------------------------------------------------------------------------
(* api_outlook on a folder of reports with module headers, and with lines in
   brackets that are status markers or dates *)

\* [Kernel] | 1. Fix bug ... | [Driver][USB] | 1. **Write doc ...
\* 1. Fix bug ... | [UI] | [Status: open] | [11/03] | 1. Ship ...
\* [Net] | [In-Progress] | 1. **Write doc ...
\* [DONE] | [2025-11-03] | [20251103] | 2. Plan ...
ModuleBodies == <<
    <<<<"[", "K", "e", "r", "n", "e", "l", "]">>, FixBugLine,
      <<"[", "D", "r", "i", "v", "e", "r", "]", "[", "U", "S", "B", "]">>,
      WriteDocLine>>,
    <<FixBugLine, <<"[", "U", "I", "]">>,
      <<"[", "S", "t", "a", "t", "u", "s", ":", " ", "o", "p", "e", "n", "]">>,
      <<"[", "1", "1", "/", "0", "3", "]">>, ShipLine>>,
    <<<<"[", "N", "e", "t", "]">>,
      <<"[", "I", "n", "-", "P", "r", "o", "g", "r", "e", "s", "s", "]">>,
      WriteDocLine>>,
    <<<<"[", "D", "O", "N", "E", "]">>,
      <<"[", "2", "0", "2", "5", "-", "1", "1", "-", "0", "3", "]">>,
      <<"[", "2", "0", "2", "5", "1", "1", "0", "3", "]">>, PlanLine>> >>

\* lines 4438-4440, on that folder
ParseModuleMail ==
    /\ pc = "parse"
    /\ Len(mails) < MaxMails
    /\ \E d \in 1..Len(MailDates), b \in 1..Len(ModuleBodies) :
          /\ IF mails = <<>> THEN TRUE
             ELSE ~DateLess(mails[Len(mails)].date, MailDates[d])
          /\ mails' = Append(mails, [date |-> MailDates[d], body |-> b])
          /\ tasks' = parse(tasks, ModuleBodies[b], MailDates[d], Len(mails) + 1,
                            request_exclude)
    /\ UNCHANGED <<pc, request_exclude, raw_tasks, unique_members,
                   last_mail_date, all_tasks, contribution, totals, today, runs, hash_order>>

NextModules == ParseModuleMail \/ Collect

SpecModules == Init /\ [][NextModules]_vars

-----------------------------------------------------------------------------
(* A parser and a Stats given the messages of a folder in any order of their
   dates *)

\* the bodies of the messages of that folder
OrderBodies == <<
    <<FixBugLine, WriteDocLine>>,
    <<FixBugUrgentLine, PlanLine>> >>

\* lines 4438-4440, the messages coming in any order
ParseAnyMail ==
    /\ pc = "parse"
    /\ Len(mails) < MaxMails
    /\ \E d \in 1..Len(MailDates), b \in 1..Len(OrderBodies) :
          /\ mails' = Append(mails, [date |-> MailDates[d], body |-> b])
          /\ tasks' = parse(tasks, OrderBodies[b], MailDates[d], Len(mails) + 1,
                            request_exclude)
    /\ UNCHANGED <<pc, request_exclude, raw_tasks, unique_members,
                   last_mail_date, all_tasks, contribution, totals, today, runs, hash_order>>

NextOrder == ParseAnyMail \/ Collect \/ Summary

SpecOrder == Init /\ [][NextOrder]_vars

-----------------------------------------------------------------------------
(* The parser: what the specification says of it *)

\* is the token a valid owner: 1 to 10 ideographs, or a letter followed by at
\* most 19 letters, digits or underscores
ValidOwner(p) ==
    \/ Len(p) \in 1..10 /\ \A i \in 1..Len(p) : p[i] \in Range(Ideographs)
    \/ /\ Len(p) \in 1..20
       /\ p[1] \in Range(UpperCase) \cup Range(LowerCase)
       /\ \A i \in 2..Len(p) :
             p[i] \in Range(UpperCase) \cup Range(LowerCase) \cup Range(Digits) \cup {"_"}

\* the owner segment of a numbered line: what follows the first dash, the
\* bracket groups taken out, cut at "/", "," and the ideographic comma
OwnerSegment(line) ==
    LET content == NumberedContent(Strip(line))
        d       == FirstIn(content, 1, DashChars)
    IN  IF d = 0 THEN <<>>
        ELSE SplitAny(Strip(RemoveBrackets(Drop(content, d))), {"/", ",", IdeoComma})

\* has the line an owner segment with a valid owner in it
HasValidOwner(line) ==
    \E i \in 1..Len(OwnerSegment(line)) : ValidOwner(Strip(OwnerSegment(line)[i]))

\* the numbered lines of each body that have a valid owner and a due group
OwnedLines ==
    [b \in 1..Len(Bodies) |->
        {l \in 1..Len(Bodies[b]) :
            /\ IsNumbered(Strip(Bodies[b][l]))
            /\ HasValidOwner(Bodies[b][l])
            /\ DueMatch(Bodies[b][l]).found}]

\* C11: a numbered line whose owner segment has no valid owner gives no record:
\* a message gives at most as many records as it has numbered lines with a
\* valid owner and a due group, and every record has owners, each of them valid.
NoRecordWithoutOwner ==
    /\ \A m \in 1..Len(mails) :
          Cardinality(TasksOfMail(m)) <= Cardinality(OwnedLines[mails[m].body])
    /\ \A j \in 1..Len(tasks) :
          /\ tasks[j].owners # <<>>
          /\ \A i \in 1..Len(tasks[j].owners) : ValidOwner(tasks[j].owners[i])

\* a message with a numbered line without a valid owner has been parsed, and
\* another line of it gave a record
OwnerlessLineParsed ==
    /\ \E m \in 1..Len(mails) :
          /\ \E l \in 1..Len(Bodies[mails[m].body]) :
                /\ IsNumbered(Bodies[mails[m].body][l])
                /\ l \notin OwnedLines[mails[m].body]
                /\ DueMatch(Bodies[mails[m].body][l]).found
          /\ TasksOfMail(m) # {}

-----------------------------------------------------------------------------
(* The contribution table: what the specification says of it *)

\* the finalized tasks of an owner
TasksOfOwner(n) == {j \in 1..Len(all_tasks) : n \in Range(all_tasks[j].owners)}

\* those of them that are not pending
CountedTasksOfOwner(n) == {j \in TasksOfOwner(n) : all_tasks[j].task_status # "pending"}

Overdue(T) == {j \in T : all_tasks[j].overdue_days > 0}

WithPriority(T, p) == {j \in T : all_tasks[j].priority = p}

RECURSIVE OverdueDaysOf(_)
OverdueDaysOf(T) ==
    IF T = {} THEN 0
    ELSE LET j == CHOOSE j \in T : TRUE
         IN  all_tasks[j].overdue_days + OverdueDaysOf(T \ {j})

EntryOfOwner(n) ==
    contribution[CHOOSE i \in 1..Len(contribution) : contribution[i].name = n]

\* C12: the figures of every owner are taken over the owner's tasks that are
\* not pending.
PendingNotCounted ==
    pc = "done" =>
        \A i \in 1..Len(contribution) :
            LET c == contribution[i]
                T == CountedTasksOfOwner(c.name)
            IN  /\ c.task_count = Cardinality(T)
                /\ c.high = Cardinality(WithPriority(T, "high"))
                /\ c.medium = Cardinality(WithPriority(T, "medium"))
                /\ c.normal = Cardinality(WithPriority(T, "normal"))
                /\ c.base_score = 3 * c.high + 2 * c.medium + c.normal
                /\ c.overdue_count = Cardinality(Overdue(T))
                /\ c.overdue_days = OverdueDaysOf(Overdue(T))

\* is p, in tenths, x rounded to one decimal, x being num / den
IsRounded(p, num, den) == 2 * p * den <= 20 * num + den /\ 2 * p * den >= 20 * num - den

\* the three terms of the penalty, in 14 * oc-ths: oc * 0.5, avg / 7 where
\* avg = total / oc > 7, and 2 where oc / tc > 0.3
HalfTerm(oc) == 7 * oc * oc

AvgTerm(oc, total) == IF total > 7 * oc THEN 2 * total ELSE 0

RateTerm(oc, tc) == IF 10 * oc > 3 * tc THEN 28 * oc ELSE 0

\* C13: the penalty of every owner is overdue_count * 0.5, plus avg / 7 if the
\* mean avg of the overdue days of the owner's overdue tasks is above 7, plus 2
\* if overdue_count / task_count is above 0.3, rounded to one decimal; it is 0
\* when the owner has no overdue task.
PenaltyFormula ==
    pc = "done" =>
        \A i \in 1..Len(contribution) :
            LET c     == contribution[i]
                oc    == Cardinality(Overdue(TasksOfOwner(c.name)))
                total == OverdueDaysOf(Overdue(TasksOfOwner(c.name)))
                tc    == Cardinality(TasksOfOwner(c.name))
            IN  /\ c.overdue_count = oc
                /\ c.overdue_days = total
                /\ c.task_count = tc
                /\ oc = 0 => c.overdue_penalty = 0
                /\ oc > 0 =>
                      IsRounded(c.overdue_penalty,
                                HalfTerm(oc) + AvgTerm(oc, total) + RateTerm(oc, tc),
                                14 * oc)

\* an owner whose overdue tasks are more than 7 days late on average and at
\* most 3 in 10 of the owner's tasks, and an owner without an overdue task
GatesDiffer ==
    /\ pc = "done"
    /\ \E i, i0 \in 1..Len(contribution) :
          /\ contribution[i].overdue_count > 0
          /\ contribution[i].overdue_days > 7 * contribution[i].overdue_count
          /\ 10 * contribution[i].overdue_count <= 3 * contribution[i].task_count
          /\ contribution[i].overdue_penalty > 5 * contribution[i].overdue_count
          /\ contribution[i0].task_count > 0
          /\ contribution[i0].overdue_count = 0

\* C14: base_score is 3 * high + 2 * medium + normal over the owner's tasks, and
\* the score is base_score less the penalty, or 0 if that is negative, rounded
\* to one decimal: it is never negative.
ScoreFormula ==
    pc = "done" =>
        \A i \in 1..Len(contribution) :
            LET c     == contribution[i]
                T     == TasksOfOwner(c.name)
                oc    == Cardinality(Overdue(T))
                den   == IF oc = 0 THEN 1 ELSE 14 * oc
                pen   == IF oc = 0 THEN 0
                         ELSE HalfTerm(oc) + AvgTerm(oc, OverdueDaysOf(Overdue(T)))
                                 + RateTerm(oc, Cardinality(T))
            IN  /\ c.high = Cardinality(WithPriority(T, "high"))
                /\ c.medium = Cardinality(WithPriority(T, "medium"))
                /\ c.normal = Cardinality(WithPriority(T, "normal"))
                /\ c.base_score = 3 * c.high + 2 * c.medium + c.normal
                /\ c.score >= 0
                /\ IF c.base_score * den >= pen
                   THEN IsRounded(c.score, c.base_score * den - pen, den)
                   ELSE c.score = 0

\* an owner whose penalty is above the base score
PenaltyAboveBase ==
    /\ pc = "done"
    /\ \E i \in 1..Len(contribution) :
          /\ contribution[i].base_score > 0
          /\ contribution[i].overdue_penalty > 10 * contribution[i].base_score
          /\ contribution[i].score = 0

\* the owners in the order in which the records added to the Stats first name
\* them
RECURSIVE FirstAppearance(_)
FirstAppearance(names) ==
    IF names = <<>> THEN <<>>
    ELSE LET before == FirstAppearance(Take(names, Len(names) - 1))
         IN  IF names[Len(names)] \in Range(before) THEN before
             ELSE Append(before, names[Len(names)])

RECURSIVE OwnersOf(_)
OwnersOf(ts) == IF ts = <<>> THEN <<>> ELSE ts[1].owners \o OwnersOf(Tail(ts))

AppearsAt(n) ==
    CHOOSE i \in 1..Len(FirstAppearance(OwnersOf(raw_tasks))) :
        FirstAppearance(OwnersOf(raw_tasks))[i] = n

\* the contribution list has one entry per owner, in the order of
\* non-increasing score, with rank the position counted from 1
RankedByScore ==
    /\ {contribution[i].name : i \in 1..Len(contribution)} = unique_members
    /\ Len(contribution) = Cardinality(unique_members)
    /\ \A i \in 1..Len(contribution) : contribution[i].rank = i
    /\ \A i, j \in 1..Len(contribution) :
          i < j => contribution[i].score >= contribution[j].score

\* C16 as the specification states it: the list is ranked by score, and owners
\* of equal score stand in the order of their first appearance in the input.
TiesByFirstAppearance ==
    pc = "done" =>
        /\ RankedByScore
        /\ \A i, j \in 1..Len(contribution) :
              (i < j /\ contribution[i].score = contribution[j].score) =>
                 AppearsAt(contribution[i].name) < AppearsAt(contribution[j].name)

\* C16 as the code has it: the list is ranked by score, and owners of equal
\* score stand in the order of their names, by code point.
TiesByName ==
    pc = "done" =>
        /\ RankedByScore
        /\ \A i, j \in 1..Len(contribution) :
              (i < j /\ contribution[i].score = contribution[j].score) =>
                 StrLess(contribution[i].name, contribution[j].name)

\* two owners of equal score, the one named later in the input standing first
TiedOutOfAppearance ==
    /\ pc = "done"
    /\ \E i, j \in 1..Len(contribution) :
          /\ i < j
          /\ contribution[i].score = contribution[j].score
          /\ AppearsAt(contribution[i].name) > AppearsAt(contribution[j].name)

Alice == <<"A", "l", "i", "c", "e">>

Bob == <<"B", "o", "b">>

\* the owner has exactly 3 tasks, all completed and of high priority, late of
\* them exactly those of the given days
OwnsThreeCompletedHigh(n, late) ==
    /\ Cardinality(TasksOfOwner(n)) = 3
    /\ \A j \in TasksOfOwner(n) :
          all_tasks[j].task_status = "completed" /\ all_tasks[j].priority = "high"
    /\ {all_tasks[j].overdue_days : j \in Overdue(TasksOfOwner(n))} = late
    /\ Cardinality(Overdue(TasksOfOwner(n))) = Cardinality(late)

\* scenario C: Alice and Bob each own 3 completed high-priority tasks, one of
\* Alice's 10 days overdue and none of Bob's
ScenarioCGiven ==
    /\ pc = "done"
    /\ OwnsThreeCompletedHigh(Alice, {10})
    /\ OwnsThreeCompletedHigh(Bob, {})

\* C15 as the specification states it: in scenario C Alice has base_score 9,
\* penalty 0.5 + 10/7 (1.9) and score 7.1, Bob has base_score 9, penalty 0 and
\* score 9, and Bob ranks above Alice.
ScenarioC ==
    ScenarioCGiven =>
        /\ EntryOfOwner(Alice).base_score = 9
        /\ EntryOfOwner(Alice).overdue_penalty = 19
        /\ EntryOfOwner(Alice).score = 71
        /\ EntryOfOwner(Bob).base_score = 9
        /\ EntryOfOwner(Bob).overdue_penalty = 0
        /\ EntryOfOwner(Bob).score = 90
        /\ EntryOfOwner(Bob).rank < EntryOfOwner(Alice).rank

\* C15 as the code has it: in scenario C one in three of Alice's tasks is
\* overdue, which is above 0.3, so that her penalty is 0.5 + 10/7 + 2 (3.9) and
\* her score 5.1; Bob has base_score 9, penalty 0 and score 9 and ranks above
\* Alice.
ScenarioCWithRateTerm ==
    ScenarioCGiven =>
        /\ EntryOfOwner(Alice).base_score = 9
        /\ EntryOfOwner(Alice).overdue_penalty = 39
        /\ EntryOfOwner(Alice).score = 51
        /\ EntryOfOwner(Bob).base_score = 9
        /\ EntryOfOwner(Bob).overdue_penalty = 0
        /\ EntryOfOwner(Bob).score = 90
        /\ EntryOfOwner(Bob).rank < EntryOfOwner(Alice).rank

\* scenario C has come about and the table is there
ScenarioCReached ==
    /\ ScenarioCGiven
    /\ Len(contribution) >= 2
    /\ runs >= 1

-----------------------------------------------------------------------------
(* The priority sections: what the specification says of them *)

\* does the line hold "middle priority" or "low priority", in any case
HoldsMarker(line) ==
    \E w \in {<<"m", "i", "d", "d", "l", "e">>, <<"l", "o", "w">>} :
        \E i \in 1..Len(line) :
            /\ i + Len(w) + 8 <= Len(line)
            /\ Lower(SubSeq(line, i, i + Len(w) + 8))
                 = w \o <<" ", "p", "r", "i", "o", "r", "i", "t", "y">>

\* what each line of each body gives when it is parsed on its own, no line
\* halting the parser
LineTasks ==
    [b \in 1..Len(ReportBodies) |->
        [l \in 1..Len(ReportBodies[b]) |->
            parse(<<>>, <<ReportBodies[b][l]>>, NoDate, 0, FALSE)]]

\* the lines of each body that hold a marker
MarkerLines ==
    [b \in 1..Len(ReportBodies) |->
        {l \in 1..Len(ReportBodies[b]) : HoldsMarker(ReportBodies[b][l])}]

\* the lines of a body that are read: with the option on, those before the
\* first line that holds a marker; all of them with the option off
LinesRead(b, option) ==
    {l \in 1..Len(ReportBodies[b]) : option => \A l2 \in 1..l : l2 \notin MarkerLines[b]}

\* the tasks of the lines 1..l of a body that are read, in the order of the lines
RECURSIVE TasksRead(_, _, _)
TasksRead(b, l, option) ==
    IF l = 0 THEN <<>>
    ELSE TasksRead(b, l - 1, option)
            \o (IF l \in LinesRead(b, option) THEN LineTasks[b][l] ELSE <<>>)

\* the tasks that each body is to give, by the option
BodyTasks ==
    [b \in 1..Len(ReportBodies), option \in BOOLEAN |->
        TasksRead(b, Len(ReportBodies[b]), option)]

\* the tasks of the first n messages, each with the date and the number of its
\* message
RECURSIVE TasksExpected(_)
TasksExpected(n) ==
    IF n = 0 THEN <<>>
    ELSE TasksExpected(n - 1)
            \o [i \in 1..Len(BodyTasks[mails[n].body, request_exclude]) |->
                  [BodyTasks[mails[n].body, request_exclude][i]
                      EXCEPT !.mail_date = mails[n].date, !.mail_id = n]]

\* C17: with the option on, a message gives the tasks of its lines before the
\* first line that holds "middle priority" or "low priority", and none of that
\* line or of a later one; with the option off it gives the tasks of all its
\* lines; the tasks of the other messages, parsed before or after it, are
\* there whatever it holds.
HaltAtMarker == tasks = TasksExpected(Len(mails))

\* with the option on, a message has been parsed that has a task before a
\* marker and one after it, and another message after that one has given a
\* task
HaltedThenParsedOn ==
    /\ request_exclude
    /\ \E m \in 1..Len(mails) :
          /\ mails[m].body = 1
          /\ Cardinality(TasksOfMail(m)) = 1
          /\ \E m2 \in (m + 1)..Len(mails) : TasksOfMail(m2) # {}

-----------------------------------------------------------------------------
(* The finalized tasks: what the specification says of their fields *)

\* C18: every finalized task has task_status completed, pending or
\* in_progress, overdue_days at least 0, first_seen not after last_seen and
\* days_spent at least 1.
FinalizedFields ==
    \A j \in 1..Len(all_tasks) :
        /\ all_tasks[j].task_status \in {"completed", "pending", "in_progress"}
        /\ all_tasks[j].overdue_days >= 0
        /\ ~DateLess(all_tasks[j].last_seen, all_tasks[j].first_seen)
        /\ all_tasks[j].days_spent >= 1

\* a task seen on one date only and completed before it was due
CompletedEarlyInOneDay ==
    /\ pc = "done"
    /\ \E j \in 1..Len(all_tasks) :
          /\ all_tasks[j].task_status = "completed"
          /\ all_tasks[j].due = <<"1", "1", "/", "0", "3">>
          /\ all_tasks[j].first_seen = all_tasks[j].last_seen
          /\ DateLess(all_tasks[j].last_seen, <<2025, 11, 3>>)
          /\ all_tasks[j].overdue_days = 0
          /\ all_tasks[j].days_spent = 1

-----------------------------------------------------------------------------
(* The overdue calculator: what the specification says of its failures *)

\* the parts of a due token, split at its slashes and dashes
DueParts(due) == SplitAny(due, {"/", "-"})

\* the due token names a calendar date: two or three numeric parts, the last two
\* a month and a day of that month, in the year given or in the year first seen
ResolvesToDate(due, first_seen) ==
    LET parts == DueParts(Strip(due))
        n     == Len(parts)
        num(i) == IntParse(parts[i]).val
        year  == IF n = 2 THEN first_seen[1]
                 ELSE IF num(1) < 100 THEN num(1) + 2000 ELSE num(1)
    IN  /\ n \in {2, 3}
        /\ \A i \in 1..n : IntParse(parts[i]).ok
        /\ year \in 1..9999
        /\ num(n - 1) \in 1..12
        /\ num(n) \in 1..DaysInMonth(year, num(n - 1))

ParsedFields == {"title", "owners", "priority", "due", "status", "module", "key"}

\* C19: a finalized task whose due token names no calendar date, or is missing,
\* has overdue_days 0; and every task added is finalized, in a record that
\* covers the date of its message and carries the fields of a parsed task.
UnresolvedDueIsZero ==
    /\ \A j \in 1..Len(all_tasks) :
          ~ResolvesToDate(all_tasks[j].due, all_tasks[j].first_seen)
             => all_tasks[j].overdue_days = 0
    /\ pc = "done" =>
          /\ Len(raw_tasks) = Len(tasks)
          /\ \A i \in 1..Len(raw_tasks) : \E j \in 1..Len(all_tasks) :
                /\ all_tasks[j].key = raw_tasks[i].key
                /\ ~DateLess(raw_tasks[i].mail_date, all_tasks[j].first_seen)
                /\ ~DateLess(all_tasks[j].last_seen, raw_tasks[i].mail_date)
          /\ \A j \in 1..Len(all_tasks) : \E i \in 1..Len(raw_tasks) :
                \A f \in ParsedFields : all_tasks[j][f] = raw_tasks[i][f]

\* a task due on 09/31 and one on 13/01 finalized with no overdue days, next to
\* a task due on 10/26 that is overdue
UnresolvedDueFinalized ==
    /\ pc = "done"
    /\ \E j, k, l \in 1..Len(all_tasks) :
          /\ all_tasks[j].due = <<"0", "9", "/", "3", "1">>
          /\ all_tasks[j].overdue_days = 0
          /\ all_tasks[k].due \in {<<"1", "3", "/", "0", "1">>, <<"1", "/", "2", "/", "3", "/", "4">>}
          /\ all_tasks[k].overdue_days = 0
          /\ all_tasks[l].due = <<"1", "0", "/", "2", "6">>
          /\ all_tasks[l].overdue_days > 0

-----------------------------------------------------------------------------
(* The due token of a record: what the specification says of its form *)

\* a slash-less payload of 3 or 4 digits
IsSlashless(due) == Len(due) \in {3, 4} /\ AllDigits(due)

\* such a payload split before its last two digits: "1126" as "11/26"
Slashed(due) ==
    IF IsSlashless(due)
    THEN Take(due, Len(due) - 2) \o <<"/">> \o Drop(due, Len(due) - 2)
    ELSE due

\* C20: no record of the parser keeps a slash-less payload of 3 or 4 digits as
\* its due, the payload being split into month and day; and the overdue days of
\* a task that is not completed are those of the slashed form of its due.
DueNormalized ==
    /\ \A j \in 1..Len(tasks) : ~IsSlashless(tasks[j].due_date)
    /\ pc = "done" =>
          \A j \in 1..Len(all_tasks) :
              all_tasks[j].task_status # "completed" =>
                 all_tasks[j].overdue_days
                    = calc_overdue_days_v2(Slashed(all_tasks[j].due),
                                           all_tasks[j].first_seen, today)

-----------------------------------------------------------------------------
(* The overdue calculator: what the specification says of the year of a due *)

\* the due token is a month and a day, each of one or two digits
IsMonthDay(due) ==
    \E m, n \in 1..2 :
        /\ Len(due) = m + n + 1
        /\ AllDigits(Take(due, m)) /\ due[m + 1] = "/" /\ AllDigits(Drop(due, m + 1))

MonthOf(due) == DigitsValue(Take(due, FirstIn(due, 1, {"/"}) - 1))
DayOf(due) == DigitsValue(Drop(due, FirstIn(due, 1, {"/"})))

\* the day number of the due date of a finalized task: the month and day in the
\* year first seen, a year later if that is more than 180 days before first_seen
ResolvedDue(t) ==
    LET candidate == Ordinal(t.first_seen[1], MonthOf(t.due), DayOf(t.due))
    IN  IF DateOrdinal(t.first_seen) - candidate > 180
        THEN Ordinal(t.first_seen[1] + 1, MonthOf(t.due), DayOf(t.due))
        ELSE candidate

\* the date the overdue days of a finalized task are counted to
EndDate(t) == IF t.task_status = "completed" THEN t.last_seen ELSE today

\* C21: the due date of a token MM/DD is in first_seen's year, and a year later
\* iff that is more than 180 days before first_seen; overdue_days are the days
\* from it to the end date (last_seen for a completed task), and 0 if negative.
YearResolution ==
    pc = "done" =>
        \A j \in 1..Len(all_tasks) :
            \A t \in {all_tasks[j]} :
                ( /\ IsMonthDay(t.due)
                  /\ ValidDate(t.first_seen[1], MonthOf(t.due), DayOf(t.due))
                  /\ ValidDate(t.first_seen[1] + 1, MonthOf(t.due), DayOf(t.due)) )
                => t.overdue_days
                      = (IF DateOrdinal(EndDate(t)) > ResolvedDue(t)
                         THEN DateOrdinal(EndDate(t)) - ResolvedDue(t) ELSE 0)

\* two tasks first seen on one date and completed, one due exactly 180 days
\* before that date and overdue by 180 days, one due 181 days before it and not
\* overdue
RolledAndNotRolled ==
    /\ pc = "done"
    /\ \E j, k \in 1..Len(all_tasks) :
          /\ all_tasks[j].task_status = "completed"
          /\ all_tasks[k].task_status = "completed"
          /\ all_tasks[j].first_seen = all_tasks[k].first_seen
          /\ all_tasks[j].last_seen = all_tasks[j].first_seen
          /\ all_tasks[k].last_seen = all_tasks[k].first_seen
          /\ IsMonthDay(all_tasks[j].due) /\ IsMonthDay(all_tasks[k].due)
          /\ DateOrdinal(all_tasks[j].first_seen)
                - Ordinal(2025, MonthOf(all_tasks[j].due), DayOf(all_tasks[j].due)) = 180
          /\ DateOrdinal(all_tasks[k].first_seen)
                - Ordinal(2025, MonthOf(all_tasks[k].due), DayOf(all_tasks[k].due)) = 181
          /\ all_tasks[j].overdue_days = 180
          /\ all_tasks[k].overdue_days = 0

\* the year of the due date of a task that is still open, resolved against
\* today as well: a year later if the date is more than 180 days before today,
\* a year earlier if it is more than 180 days after today
YearAgainstToday(t) ==
    LET year == IF DateOrdinal(t.first_seen)
                      - Ordinal(t.first_seen[1], MonthOf(t.due), DayOf(t.due)) > 180
                THEN t.first_seen[1] + 1 ELSE t.first_seen[1]
        due  == Ordinal(year, MonthOf(t.due), DayOf(t.due))
    IN  IF DateOrdinal(today) - due > 180 THEN year + 1
        ELSE IF due - DateOrdinal(today) > 180 THEN year - 1
        ELSE year

\* C22: the overdue days of a task that is not completed are counted from its
\* due date in the year resolved against today as well.
ResolvedAgainstToday ==
    pc = "done" =>
        \A j \in 1..Len(all_tasks) :
            \A t \in {all_tasks[j]} :
                ( /\ t.task_status # "completed"
                  /\ IsMonthDay(t.due)
                  /\ \A y \in (t.first_seen[1] - 1)..(t.first_seen[1] + 2) :
                        ValidDate(y, MonthOf(t.due), DayOf(t.due)) )
                => \A due \in {Ordinal(YearAgainstToday(t), MonthOf(t.due), DayOf(t.due))} :
                      t.overdue_days
                         = (IF DateOrdinal(today) > due THEN DateOrdinal(today) - due ELSE 0)

-----------------------------------------------------------------------------
(* The lifecycle walk: what the specification says of its steps *)

\* the keys of the records of each of the dates
KeysByDate(dates) ==
    [i \in 1..Len(dates) |->
        {raw_tasks[j].key : j \in {j \in 1..Len(raw_tasks) :
                                      raw_tasks[j].mail_date = dates[i]}}]

\* the maximal runs of consecutive dates that hold the key, each as the places
\* of its first and last date
RunsIn(at, k) ==
    {p \in (1..Len(at)) \X (1..Len(at)) :
        /\ p[1] <= p[2]
        /\ \A i \in p[1]..p[2] : k \in at[i]
        /\ p[1] = 1 \/ k \notin at[p[1] - 1]
        /\ p[2] = Len(at) \/ k \notin at[p[2] + 1]}

\* C23: a key that is active and present at the next date stays active, its
\* tracker keeps first_seen and holds the record of that date's snapshot; so a
\* finalized task has first_seen from the first date of its run of dates and
\* every other attribute from the snapshot of the last date of the run.
ContinueStep ==
    pc = "done" =>
        /\ \A i \in 2..Len(Dates) :
              \A before \in {Walk(i - 1)} : \A after \in {Walk(i)} :
                  \A k \in ActiveKeys(before) :
                      Present(k, i) =>
                         /\ k \in ActiveKeys(after)
                         /\ TrackerOf(after.task_tracker, k).first_seen
                               = TrackerOf(before.task_tracker, k).first_seen
                         /\ TrackerOf(after.task_tracker, k).task_data
                               = Survivor(k, Dates[i])
        /\ \A dates \in {Dates} : \A at \in {KeysByDate(dates)} :
              \A j \in 1..Len(all_tasks) :
                  \E p \in RunsIn(at, all_tasks[j].key) :
                      /\ all_tasks[j].first_seen = dates[p[1]]
                      /\ all_tasks[j].last_seen = dates[p[2]]
                      /\ SameRecord(all_tasks[j], Survivor(all_tasks[j].key, dates[p[2]]))

\* a finalized task seen on two dates or more whose title, owners, priority and
\* status at the first date all differ from those it carries
DriftedAcrossDates ==
    /\ pc = "done"
    /\ \E j \in 1..Len(all_tasks) :
          /\ DateLess(all_tasks[j].first_seen, all_tasks[j].last_seen)
          /\ \E r \in {Survivor(all_tasks[j].key, all_tasks[j].first_seen)} :
                /\ r.title # all_tasks[j].title
                /\ r.owners # all_tasks[j].owners
                /\ r.priority # all_tasks[j].priority
                /\ r.status # all_tasks[j].status
                /\ r.mail_id # all_tasks[j].mail_id

-----------------------------------------------------------------------------
(* The owners of a record: what the specification says of them *)

\* C24: the owners of every record are the valid owner tokens of its line in
\* their order, none of them twice.
OwnersDistinct ==
    \A j \in 1..Len(tasks) :
        \A a, b \in 1..Len(tasks[j].owners) :
            a # b => tasks[j].owners[a] # tasks[j].owners[b]

-----------------------------------------------------------------------------
(* The module headers: what the specification says of them *)

\* is the line one that the classifier takes as a module header
IsHeader(line) ==
    IsBracketGroups(Strip(line)) /\ is_valid_module(FirstBracket(Strip(line)))

\* the module context after the first l lines of a body: the last header among
\* them, whole, or the empty module
RECURSIVE ContextAt(_, _)
ContextAt(b, l) ==
    IF l = 0 THEN <<>>
    ELSE IF IsHeader(ModuleBodies[b][l]) THEN Strip(ModuleBodies[b][l])
    ELSE ContextAt(b, l - 1)

\* the tasks of the first l lines of a body, each line parsed on its own and
\* its task tagged with the context of the lines before it
RECURSIVE TaggedTasks(_, _)
TaggedTasks(b, l) ==
    IF l = 0 THEN <<>>
    ELSE TaggedTasks(b, l - 1)
            \o [i \in 1..Len(parse(<<>>, <<ModuleBodies[b][l]>>, NoDate, 0, TRUE)) |->
                  [parse(<<>>, <<ModuleBodies[b][l]>>, NoDate, 0, TRUE)[i]
                      EXCEPT !.module = ContextAt(b, l - 1)]]

\* the tasks that each body is to give
ModuleBodyTasks == [b \in 1..Len(ModuleBodies) |-> TaggedTasks(b, Len(ModuleBodies[b]))]

RECURSIVE TaggedExpected(_)
TaggedExpected(n) ==
    IF n = 0 THEN <<>>
    ELSE TaggedExpected(n - 1)
            \o [i \in 1..Len(ModuleBodyTasks[mails[n].body]) |->
                  [ModuleBodyTasks[mails[n].body][i]
                      EXCEPT !.mail_date = mails[n].date, !.mail_id = n]]

\* C25: every task is tagged with the last module header before it in its
\* message, whole and alone, or with the empty module if there is none; the
\* context of a message is not carried to the tasks of the next one.
ModuleTracking == tasks = TaggedExpected(Len(mails))

\* a message that ends under a header, and after it a message whose first task
\* comes before any header and has the empty module, while a later task of it
\* has the module of the header before it
ContextNotCarried ==
    \E m \in 1..(Len(mails) - 1) :
        /\ mails[m].body = 1 /\ mails[m + 1].body = 2
        /\ \E j, k \in TasksOfMail(m + 1) :
              /\ tasks[j].module = <<>>
              /\ tasks[k].module = <<"[", "U", "I", "]">>
        /\ \E j, k \in TasksOfMail(m) :
              /\ tasks[j].module = <<"[", "K", "e", "r", "n", "e", "l", "]">>
              /\ tasks[k].module
                    = <<"[", "D", "r", "i", "v", "e", "r", "]", "[", "U", "S", "B", "]">>

\* the inner text of the first bracket group of a line of bracket groups
FirstInner(line) == Strip(SubSeq(line, 2, FirstIn(line, 2, {"]"}) - 1))

\* the words that make a bracket group a status marker when they are all of it
MarkerWords ==
    {<<"s", "t", "a", "t", "u", "s">>,
     <<"d", "u", "e">>,
     <<"d", "u", "e", "d", "a", "t", "e">>,
     <<"p", "e", "n", "d", "i", "n", "g">>,
     <<"r", "e", "s", "o", "l", "v", "e", "d">>,
     <<"d", "o", "n", "e">>,
     <<"c", "o", "m", "p", "l", "e", "t", "e", "d">>,
     <<"i", "n", "-", "p", "r", "o", "g", "r", "e", "s", "s">>}

\* the words that make it one when a colon follows them
MarkerPrefixes ==
    {<<"s", "t", "a", "t", "u", "s">>, <<"d", "u", "e">>, <<"d", "u", "e", "d", "a", "t", "e">>}

\* is the inner text a status marker, in any case
IsStatusMarker(inner) ==
    \/ Lower(inner) \in MarkerWords
    \/ \E w \in MarkerPrefixes :
          /\ Len(inner) > Len(w)
          /\ Lower(Take(inner, Len(w))) = w
          /\ \E rest \in {LStrip(Drop(inner, Len(w)))} : rest # <<>> /\ rest[1] = ":"

\* is the text made of runs of digits of the lengths given, with sep between
DigitRuns(text, sep, lengths) ==
    \E parts \in {Split(text, sep)} :
        /\ Len(parts) = Len(lengths)
        /\ \A i \in 1..Len(parts) : AllDigits(parts[i]) /\ Len(parts[i]) \in lengths[i]

\* is the inner text a date: 8 digits, YYYY-MM-DD, YYYY/MM/DD, MM/DD, MM/DD/YY
\* or MM/DD/YYYY
IsDateText(inner) ==
    \/ AllDigits(inner) /\ Len(inner) = 8
    \/ DigitRuns(inner, "-", <<{4}, {1, 2}, {1, 2}>>)
    \/ DigitRuns(inner, "/", <<{4}, {1, 2}, {1, 2}>>)
    \/ DigitRuns(inner, "/", <<{1, 2}, {1, 2}>>)
    \/ DigitRuns(inner, "/", <<{1, 2}, {1, 2}, {2, 4}>>)

\* is the line a module header, as the specification has it
IsHeaderAsSpecified(line) ==
    /\ IsBracketGroups(Strip(line))
    /\ ~IsStatusMarker(FirstInner(Strip(line)))
    /\ ~IsDateText(FirstInner(Strip(line)))

RECURSIVE ContextAsSpecified(_, _)
ContextAsSpecified(b, l) ==
    IF l = 0 THEN <<>>
    ELSE IF IsHeaderAsSpecified(ModuleBodies[b][l]) THEN Strip(ModuleBodies[b][l])
    ELSE ContextAsSpecified(b, l - 1)

\* the modules that the tasks of each body are to have, in the order of the
\* lines; a line of bracket groups gives no task
RECURSIVE ModulesAsSpecified(_, _)
ModulesAsSpecified(b, l) ==
    IF l = 0 THEN <<>>
    ELSE ModulesAsSpecified(b, l - 1)
            \o (IF IsBracketGroups(Strip(ModuleBodies[b][l])) THEN <<>>
                ELSE [i \in 1..Len(parse(<<>>, <<ModuleBodies[b][l]>>, NoDate, 0, TRUE)) |->
                        ContextAsSpecified(b, l - 1)])

BodyModules ==
    [b \in 1..Len(ModuleBodies) |-> ModulesAsSpecified(b, Len(ModuleBodies[b]))]

\* C26: a line of bracket groups whose first group is a status marker or a
\* date is no header: it gives no task and leaves the module as it is; every
\* other line of bracket groups is a header. So the tasks of a message have the
\* modules of the headers so told.
HeadersClassified ==
    \A m \in 1..Len(mails) :
        \E js \in {SelectSeq([j \in 1..Len(tasks) |-> j],
                             LAMBDA j : tasks[j].mail_id = m)} :
            /\ Len(js) = Len(BodyModules[mails[m].body])
            /\ \A i \in 1..Len(js) : tasks[js[i]].module = BodyModules[mails[m].body][i]

-----------------------------------------------------------------------------
(* The lifecycle walk: what follows from its code *)

\* the keys of the records of the i-th date
KeysAt(i) == {k \in Keys : Present(k, i)}

\* C27: after the walk has processed a date, the active keys are the keys of
\* that date's snapshot, and they are the keys the next turn iterates over; so
\* no key is active after a date it is absent from.
ActiveAreSnapshot ==
    pc = "done" =>
        \A dates \in {Dates} : \A at \in {KeysByDate(dates)} :
            \A i \in 1..Len(dates) :
                \A w \in {Walk(i)} :
                    /\ ActiveKeys(w) = at[i]
                    /\ w.prev_date_keys = at[i]
                    /\ KeysOf(DayTaskMap(TasksOfDate(raw_tasks, dates[i]))) = at[i]

\* three dates whose key sets all differ, a key of the first date absent from
\* the second and one of the second absent from the third
KeySetsChange ==
    /\ pc = "done"
    /\ Len(Dates) = 3
    /\ KeysAt(1) \ KeysAt(2) # {}
    /\ KeysAt(2) \ KeysAt(3) # {}
    /\ KeysAt(2) \ KeysAt(1) # {}
    /\ KeysAt(1) \cap KeysAt(3) # {}

\* the maximal runs of consecutive dates that hold the key
RunsOf(k) == {p \in IndexPairs : IsRun(k, p[1], p[2])}

\* C28: the finalized tasks of a key are one to one with its maximal runs of
\* consecutive dates, each from the first to the last date of its run; a task
\* is not completed iff its run ends at the last date, so a key has at most
\* one such task and these tasks are those of the keys of the last snapshot.
TasksAreRuns ==
    pc = "done" =>
        \A dates \in {Dates} : \A at \in {KeysByDate(dates)} :
            /\ \A k \in UNION Range(at) :
                  \A runs_of_k \in {RunsIn(at, k)} : \A tasks_of_k \in {TasksOfKey(k)} :
                      /\ \A p \in runs_of_k :
                            Cardinality({j \in tasks_of_k :
                                            /\ all_tasks[j].first_seen = dates[p[1]]
                                            /\ all_tasks[j].last_seen = dates[p[2]]}) = 1
                      /\ Cardinality(tasks_of_k) = Cardinality(runs_of_k)
                      /\ \A j \in tasks_of_k :
                            /\ \E p \in runs_of_k :
                                  /\ all_tasks[j].first_seen = dates[p[1]]
                                  /\ all_tasks[j].last_seen = dates[p[2]]
                            /\ all_tasks[j].task_status # "completed"
                                  <=> all_tasks[j].last_seen = dates[Len(dates)]
                      /\ Cardinality({j \in tasks_of_k :
                                         all_tasks[j].task_status # "completed"}) <= 1
            /\ {all_tasks[j].key : j \in {j \in 1..Len(all_tasks) :
                                             all_tasks[j].task_status # "completed"}}
                  = (IF Len(at) = 0 THEN {} ELSE at[Len(at)])
            /\ \A j \in 1..Len(all_tasks) : all_tasks[j].key \in UNION Range(at)

\* a key with two runs, the later one open, beside a key whose only run ends
\* before the last date
TwoRunsAndOne ==
    /\ pc = "done"
    /\ \E k, k2 \in Keys :
          /\ Cardinality(RunsOf(k)) = 2
          /\ k \in KeysAt(Len(Dates))
          /\ Cardinality(RunsOf(k2)) = 1
          /\ k2 \notin KeysAt(Len(Dates))

-----------------------------------------------------------------------------
(* The order of the messages *)

\* the records as they would have been added had the messages come oldest
\* first, the records of one date in the order they have
RECURSIVE OldestFirst(_, _)
OldestFirst(raw, n) ==
    IF n = 0 THEN <<>>
    ELSE OldestFirst(raw, n - 1) \o SelectSeq(raw, LAMBDA t : t.mail_date = MailDates[n])

\* what the comparison is about
Lifecycle(t) == <<t.key, t.first_seen, t.last_seen, t.task_status, t.days_spent>>

Lifecycles(ts) == [j \in 1..Len(ts) |-> Lifecycle(ts[j])]

SameMultiset(a, b) ==
    /\ Len(a) = Len(b)
    /\ \A x \in Range(a) \cup Range(b) :
          Cardinality({i \in 1..Len(a) : a[i] = x})
             = Cardinality({i \in 1..Len(b) : b[i] = x})

\* C29: whatever the order in which the messages of different dates were
\* parsed and added, the finalized tasks have the keys, first_seen, last_seen,
\* task_status and days_spent, each as many times, that they have when the
\* messages come oldest first.
OrderIndependence ==
    pc = "done" =>
        \E canonical \in {process_tasks(OldestFirst(raw_tasks, Len(MailDates)),
                                        today, hash_order)} :
            SameMultiset(Lifecycles(all_tasks), Lifecycles(canonical))

\* three messages of three dates, the newest parsed between the two others, and
\* a finalized task that spans more than one date
ParsedOutOfOrder ==
    /\ pc = "done"
    /\ Len(mails) = 3
    /\ DateLess(mails[1].date, mails[3].date)
    /\ DateLess(mails[3].date, mails[2].date)
    /\ \E j \in 1..Len(all_tasks) :
          DateLess(all_tasks[j].first_seen, all_tasks[j].last_seen)
    /\ \E j \in 1..Len(all_tasks) : all_tasks[j].task_status = "completed"

-----------------------------------------------------------------------------
(* The counts of the summary *)

\* C30: the three status counts add up to total_tasks, and so do the three
\* priority counts; overdue_count and not_overdue_count add up to the tasks
\* that are not completed; and is_overdue is true of a task iff it is not
\* completed and has overdue days.
CountsAddUp ==
    pc = "done" =>
        /\ totals.total_tasks = Len(all_tasks)
        /\ totals.completed_count + totals.pending_count + totals.in_progress_count
              = totals.total_tasks
        /\ totals.priority_counts["high"] + totals.priority_counts["medium"]
              + totals.priority_counts["normal"] = totals.total_tasks
        /\ totals.overdue_count + totals.not_overdue_count
              = totals.pending_count + totals.in_progress_count
        /\ totals.overdue_count
              = Cardinality({j \in 1..Len(all_tasks) :
                                /\ all_tasks[j].task_status \in {"pending", "in_progress"}
                                /\ all_tasks[j].overdue_days > 0})
        /\ \A j \in 1..Len(all_tasks) :
              totals.is_overdue[j]
                 <=> /\ all_tasks[j].task_status \in {"pending", "in_progress"}
                     /\ all_tasks[j].overdue_days > 0

\* a summary with a completed task that has overdue days and is not overdue,
\* a pending task and a task in progress, of two priorities
CompletedWithOverdueDays ==
    /\ pc = "done"
    /\ \E j \in 1..Len(all_tasks) :
          /\ all_tasks[j].task_status = "completed"
          /\ all_tasks[j].overdue_days > 0
          /\ ~totals.is_overdue[j]
    /\ totals.pending_count > 0
    /\ totals.in_progress_count > 0
    /\ totals.priority_counts["normal"] > 0
    /\ totals.priority_counts["normal"] < totals.total_tasks

====
